---- MODULE Spec2Model ----
(***************************************************************************)
(* A model of bc_hash: the streaming SHA-2 / SHA-3 contexts (sha2.rs,      *)
(* sha3.rs), the Digest hex conversions (digest.rs), the Merkle engine     *)
(* (merkle.rs) and the hash-chained block store (io.rs).                   *)
(*                                                                         *)
(* The buffering, padding, chaining and file logic is transcribed from the *)
(* source.  The two primitives underneath it, the SHA-2 compression        *)
(* function and the Keccak-f permutation, are kept as free constructors:   *)
(* the result of compressing chunk c into chaining state s is the pair     *)
(* <<s, c>>.  Two chaining states are then equal exactly when they were    *)
(* produced by the same chunks in the same order, which is the             *)
(* collision-free reading of the primitive.                                *)
(*                                                                         *)
(* A byte is a tuple: <<v>> is the plain byte v in 0..255, and <<s, j>> is *)
(* byte j of the serialisation of the chaining state s (a digest byte).    *)
(***************************************************************************)
EXTENDS Integers, Sequences, FiniteSets, TLC

VARIABLES
    alg,        \* hasher under test: which OneWayHash implementation
    hctx,       \* hasher under test: its Context
    hmsg,       \* bytes fed to hctx between the last init()/reset() and the first finish()
    horigin,    \* "init" or "reset": how hctx was last put in its start state
    hfin,       \* number of finish() calls since the last init()/reset()
    hdigest,    \* digest written by the first finish() since then, <<>> before
    hchunks,    \* lengths of the update() calls that make up hmsg
    hprior,     \* number of calls made on hctx before the last reset()
    hops        \* number of calls made on hctx

VARIABLES
    dg,         \* a Digest<S> value
    dstr,       \* the string Display wrote for dg, <<>> before
    dparsed,    \* the Result of from_str(dstr)
    dpc         \* "new", then "formatted", then "parsed"

digestVars == <<dg, dstr, dparsed, dpc>>

VARIABLES
    mL,         \* the leaves handed to the Merkle functions
    mi,         \* the leaf index handed to compute_proof
    mroot,      \* compute_root on a copy of mL: its Result and the vector left
    mproof,     \* compute_proof on a copy of mL and mi: its Result and the vector left
    mproved,    \* the digest prove leaves, from mL[mi] and the proof; <<>> before
    lproof      \* compute_proof of lib.rs on a copy of mL and mi: its Result

merkleVars == <<mL, mi, mroot, mproof, mproved, lproof>>

VARIABLES
    fexists,    \* the store file exists at the path
    fbytes,     \* the bytes of the store file
    writers,    \* the Writer objects: open, prev_hash, BufWriter buffer, file cursor
    reader,     \* the Reader object: open, byte position of its BufReader
    res,        \* the last call on the store and what it returned
    tamper,     \* the byte of the file changed from outside, if any
    iofails     \* number of I/O errors the file system has returned

storeVars == <<fexists, fbytes, writers, reader, res, tamper, iofails>>

hashVars == <<alg, hctx, hmsg, horigin, hfin, hdigest, hchunks, hprior, hops>>

VARIABLES
    strm,       \* the BlockStream object: its file, position and last call
    cache,      \* the Cache object of cache.rs: heap, map, capacity, and the clock
    heap,       \* the MinHeap / MaxHeap of heap.rs: its vector and last call
    mheap       \* the MinHeap of min_heap.rs: its vector and last call

utilVars == <<strm, cache, heap, mheap>>

vars == <<hashVars, digestVars, merkleVars, storeVars, utilVars>>

\* ------------------------------------------------------------------------
\* Bytes and small helpers
\* ------------------------------------------------------------------------

Byte(v) == <<v>>

Rep(n, v) == [i \in 1..n |-> v]

Min(a, b) == IF a < b THEN a ELSE b

RECURSIVE Xor(_, _)
\* bitwise exclusive or of two naturals (u8 ^ u8)
Xor(a, b) ==
    IF a = 0 THEN b
    ELSE IF b = 0 THEN a
    ELSE ((a + b) % 2) + 2 * Xor(a \div 2, b \div 2)

\* Byte k (0 = least significant) of the natural v < 2^31.
ByteOf(v, k) ==
    IF k >= 4 THEN 0
    ELSE IF k = 3 THEN v \div 16777216
    ELSE (v \div (256 ^ k)) % 256

\* v.to_be_bytes() of an integer type of n bytes, after the `as` cast that
\* keeps the low n bytes.
ToBeBytes(v, n) == [i \in 1..n |-> Byte(ByteOf(v, n - i))]

\* ------------------------------------------------------------------------
\* SHA-2 family (sha2.rs)
\* ------------------------------------------------------------------------

Sha2Algs == {"Sha224", "Sha256", "Sha384", "Sha512", "Sha512_224", "Sha512_256"}

\* The literals each `impl OneWayHash<N> for ShaXXX` passes to transform! and
\* wrap_up!: chunk length, size_of::<$typ>() of the length field, digest
\* length, and the initial-value table.
Sha2Params(a) ==
    CASE a = "Sha224"     -> [chunk |-> 64,  lenBytes |-> 8,  mdlen |-> 28, iv |-> "INITIAL_VALUES_224"]
      [] a = "Sha256"     -> [chunk |-> 64,  lenBytes |-> 8,  mdlen |-> 32, iv |-> "INITIAL_VALUES_256"]
      [] a = "Sha384"     -> [chunk |-> 128, lenBytes |-> 16, mdlen |-> 48, iv |-> "INITIAL_VALUES_384"]
      [] a = "Sha512"     -> [chunk |-> 128, lenBytes |-> 16, mdlen |-> 64, iv |-> "INITIAL_VALUES_512"]
      [] a = "Sha512_224" -> [chunk |-> 128, lenBytes |-> 16, mdlen |-> 28, iv |-> "INITIAL_VALUES_512_224"]
      [] a = "Sha512_256" -> [chunk |-> 128, lenBytes |-> 16, mdlen |-> 32, iv |-> "INITIAL_VALUES_512_256"]

\* extend_msg_schedule! followed by compression_loop!: the chaining state
\* after compressing one full chunk.  Words 16.. of the schedule are
\* recomputed from the chunk on every call, so the result depends on the
\* previous chaining state and the chunk only.
Sha2Compress(st, chunk) == <<st, chunk>>

\* new_context!: st = initial values, msg_sch zeroed, msg_num = 0, len = 0.
Sha2Init(p) ==
    [st |-> <<p.iv>>, b |-> Rep(p.chunk, Byte(0)), msg_num |-> 0, len |-> 0]

\* Sha2Reset with the assignment `self.len = 0` left out.
Sha2ResetKeepsLen(p, s) ==
    [s EXCEPT !.st = <<p.iv>>, !.b = Rep(p.chunk, Byte(0)), !.msg_num = 0]

\* fn reset: the four assignments of the impl.
Sha2Reset(p, s) ==
    [s EXCEPT !.st = <<p.iv>>, !.b = Rep(p.chunk, Byte(0)), !.msg_num = 0, !.len = 0]

RECURSIVE Sha2TransformFromZero(_, _, _, _)
\* Sha2Transform copying every slice to the start of the buffer, b[0..len],
\* instead of b[msg_num..msg_num + len].
Sha2TransformFromZero(p, s, data, bytes_copied) ==
    IF bytes_copied >= Len(data) THEN s
    ELSE
        LET len == Min(Len(data) - bytes_copied, p.chunk - s.msg_num)
            b1  == [i \in 1..p.chunk |->
                       IF i <= len THEN data[bytes_copied + i] ELSE s.b[i]]
            s1  == [s EXCEPT !.b = b1,
                             !.msg_num = s.msg_num + len,
                             !.len = s.len + len]
            s2  == IF s1.msg_num = p.chunk
                   THEN [s1 EXCEPT !.st = Sha2Compress(s1.st, s1.b), !.msg_num = 0]
                   ELSE s1
        IN Sha2TransformFromZero(p, s2, data, bytes_copied + len)

RECURSIVE Sha2Transform(_, _, _, _)
\* transform!: the `while bytes_copied < data.len()` loop.
Sha2Transform(p, s, data, bytes_copied) ==
    IF bytes_copied >= Len(data) THEN s
    ELSE
        LET len == Min(Len(data) - bytes_copied, p.chunk - s.msg_num)
            b1  == [i \in 1..p.chunk |->
                       IF i > s.msg_num /\ i <= s.msg_num + len
                       THEN data[bytes_copied + (i - s.msg_num)]
                       ELSE s.b[i]]
            s1  == [s EXCEPT !.b = b1,
                             !.msg_num = s.msg_num + len,
                             !.len = s.len + len]
            s2  == IF s1.msg_num = p.chunk
                   THEN [s1 EXCEPT !.st = Sha2Compress(s1.st, s1.b), !.msg_num = 0]
                   ELSE s1
        IN Sha2Transform(p, s2, data, bytes_copied + len)

\* fn update
Sha2Update(p, s, data) == Sha2Transform(p, s, data, 0)

\* Sha2PadZeros with the size of the length field left out of the loop test
Sha2PadZerosNoLenField(p, s) ==
    CHOOSE z \in 0..(p.chunk - 1) : (1 + z + s.msg_num) % p.chunk = 0

\* wrap_up!: the zero bytes pushed by the loop
\* `while (buf.len() + msg_num + size_of) % chunk != 0 { buf.push(0) }`,
\* buf starting as <<0x80>>: the loop stops at the first count z that makes
\* the sum a multiple of the chunk length.
Sha2PadZeros(p, s) ==
    CHOOSE z \in 0..(p.chunk - 1) :
        /\ (1 + z + s.msg_num + p.lenBytes) % p.chunk = 0
        /\ \A y \in 0..(z - 1) : (1 + y + s.msg_num + p.lenBytes) % p.chunk # 0

\* wrap_up!: the padding handed to update.
Sha2Padding(p, s) ==
    <<Byte(128)>> \o Rep(Sha2PadZeros(p, s), Byte(0)) \o ToBeBytes(s.len * 8, p.lenBytes)

\* st[i].to_be_bytes() copied over the digest: byte j of the serialised
\* chaining state, for the first mdlen bytes.
Sha2Serialize(p, st) == [j \in 1..p.mdlen |-> <<st, j>>]

\* fn finish (wrap_up!): the context is left as update(padding) leaves it;
\* nothing is reset.
Sha2Finish(p, s) ==
    LET s1 == Sha2Update(p, s, Sha2Padding(p, s))
    IN [ctx |-> s1, digest |-> Sha2Serialize(p, s1.st)]

\* ------------------------------------------------------------------------
\* SHA-3 family and SHAKE (sha3.rs)
\* ------------------------------------------------------------------------

Sha3Algs == {"Sha3_224", "Sha3_256", "Sha3_384", "Sha3_512", "Shake128", "Shake256"}

\* Context<B, D>: the capacity parameter B, the digest length D, and whether
\* finish is Context::finish (0x06) or shake_xof + shake_out (0x1F).  The
\* SHAKE digest length is the caller's MDLEN; 32 is the one the tests use.
Sha3Params(a) ==
    CASE a = "Sha3_224" -> [B |-> 28, mdlen |-> 28, xof |-> FALSE]
      [] a = "Sha3_256" -> [B |-> 32, mdlen |-> 32, xof |-> FALSE]
      [] a = "Sha3_384" -> [B |-> 48, mdlen |-> 48, xof |-> FALSE]
      [] a = "Sha3_512" -> [B |-> 64, mdlen |-> 64, xof |-> FALSE]
      [] a = "Shake128" -> [B |-> 16, mdlen |-> 32, xof |-> TRUE]
      [] a = "Shake256" -> [B |-> 32, mdlen |-> 32, xof |-> TRUE]

\* The 200 state bytes st.b are kept as the pair (base, x): the bytes are
\* those of the permutation output named by base, with x[j] xored into byte
\* j since.  base = <<>> names the all-zero state of init.
Sha3ZeroState == [base |-> <<>>, x |-> Rep(200, 0)]

\* keccakf: a permutation of the 200 bytes, so distinct inputs give
\* distinct outputs.
Keccakf(st) == [base |-> <<st.base, st.x>>, x |-> Rep(200, 0)]

\* st.b[j] ^= byte, j counted from 0 as in the source
Sha3XorAt(st, j, v) == [st EXCEPT !.x[j + 1] = Xor(@, v)]

\* st.b[j] read right after keccakf (x is all zero there)
Sha3ByteAt(st, j) == <<st.base, j>>

\* Context::init
Sha3Init(p) == [st |-> Sha3ZeroState, pt |-> 0, rsiz |-> 200 - (2 * p.B)]

\* fn reset of each impl: st, pt and rsiz are assigned.
Sha3Reset(p, s) ==
    [s EXCEPT !.st = Sha3ZeroState, !.pt = 0, !.rsiz = 200 - (2 * p.B)]

RECURSIVE Sha3Absorb(_, _, _, _, _)
\* Context::update: the `for byte in data` loop, taken one run at a time: a
\* run is the bytes xored into st.b[j..] up to the end of data or of the
\* rate, whichever comes first; keccakf runs and j returns to 0 when the
\* run reaches the rate.  i is the number of bytes of data consumed.
Sha3Absorb(st, rsiz, data, i, j) ==
    IF i >= Len(data) THEN [st |-> st, j |-> j]
    ELSE
        LET n   == Min(Len(data) - i, rsiz - j)
            st1 == [st EXCEPT !.x = [k \in 1..200 |->
                       IF k > j /\ k <= j + n
                       THEN Xor(st.x[k], data[i + (k - j)][1])
                       ELSE st.x[k]]]
        IN IF j + n >= rsiz
           THEN Sha3Absorb(Keccakf(st1), rsiz, data, i + n, 0)
           ELSE Sha3Absorb(st1, rsiz, data, i + n, j + n)

\* Sha3Update leaving pt at the rate when the last byte fills it
Sha3UpdateStopsAtRate(p, s, data) ==
    LET r == Sha3Absorb(s.st, s.rsiz, data, 0, s.pt)
    IN [s EXCEPT !.st = r.st,
                 !.pt = IF r.j = 0 /\ Len(data) > 0 THEN s.rsiz ELSE r.j]

\* Context::update
Sha3Update(p, s, data) ==
    LET r == Sha3Absorb(s.st, s.rsiz, data, 0, s.pt)
    IN [s EXCEPT !.st = r.st, !.pt = r.j]

\* Context::finish: pad with 0x06 .. 0x80, permute, copy st.b[..D].  pt is
\* not written.
Sha3Finish(p, s) ==
    LET st1 == Sha3XorAt(s.st, s.pt, 6)
        st2 == Sha3XorAt(st1, s.rsiz - 1, 128)
        st3 == Keccakf(st2)
    IN [ctx |-> [s EXCEPT !.st = st3],
        digest |-> [j \in 1..p.mdlen |-> Sha3ByteAt(st3, j - 1)]]

\* Context::shake_xof
ShakeXof(s) ==
    LET st1 == Sha3XorAt(s.st, s.pt, 31)
        st2 == Sha3XorAt(st1, s.rsiz - 1, 128)
    IN [s EXCEPT !.st = Keccakf(st2), !.pt = 0]

RECURSIVE ShakeSqueezeLate(_, _, _, _, _)
\* ShakeSqueeze with the test `j > self.rsiz` in place of `j >= self.rsiz`
ShakeSqueezeLate(st, rsiz, n, j, out) ==
    IF Len(out) >= n THEN [st |-> st, j |-> j, out |-> out]
    ELSE
        LET st1 == IF j > rsiz THEN Keccakf(st) ELSE st
            j1  == IF j > rsiz THEN 0 ELSE j
            k   == Min(n - Len(out), (rsiz + 1) - j1)
        IN ShakeSqueezeLate(st1, rsiz, n, j1 + k,
                            out \o [i \in 1..k |-> Sha3ByteAt(st1, j1 + (i - 1))])

RECURSIVE ShakeSqueeze(_, _, _, _, _)
\* Context::shake_out: the `for byte in digest` loop, taken one run at a
\* time; out is the part of the digest written so far.  A run starts with
\* the test `j >= self.rsiz` (keccakf and j = 0 when it holds) and reads
\* st.b[j..] up to the end of the digest or of the rate, whichever comes
\* first; the test is false for every byte of the run after the first.
ShakeSqueeze(st, rsiz, n, j, out) ==
    IF Len(out) >= n THEN [st |-> st, j |-> j, out |-> out]
    ELSE
        LET st1 == IF j >= rsiz THEN Keccakf(st) ELSE st
            j1  == IF j >= rsiz THEN 0 ELSE j
            k   == Min(n - Len(out), rsiz - j1)
        IN ShakeSqueeze(st1, rsiz, n, j1 + k,
                        out \o [i \in 1..k |-> Sha3ByteAt(st1, j1 + (i - 1))])

\* Context::shake_out
ShakeOut(s, n) ==
    LET r == ShakeSqueeze(s.st, s.rsiz, n, s.pt, <<>>)
    IN [ctx |-> [s EXCEPT !.st = r.st, !.pt = r.j], digest |-> r.out]

\* fn finish of Shake128 / Shake256
ShakeFinish(p, s) == ShakeOut(ShakeXof(s), p.mdlen)

\* ------------------------------------------------------------------------
\* The OneWayHash capability, dispatched on the implementing type
\* ------------------------------------------------------------------------

Algs == Sha2Algs \cup Sha3Algs

HInit(a) ==
    IF a \in Sha2Algs THEN Sha2Init(Sha2Params(a)) ELSE Sha3Init(Sha3Params(a))

HReset(a, s) ==
    IF a \in Sha2Algs THEN Sha2Reset(Sha2Params(a), s)
    ELSE Sha3Reset(Sha3Params(a), s)

HUpdate(a, s, data) ==
    IF a \in Sha2Algs THEN Sha2Update(Sha2Params(a), s, data)
    ELSE Sha3Update(Sha3Params(a), s, data)

HFinish(a, s) ==
    IF a \in Sha2Algs THEN Sha2Finish(Sha2Params(a), s)
    ELSE IF Sha3Params(a).xof THEN ShakeFinish(Sha3Params(a), s)
    ELSE Sha3Finish(Sha3Params(a), s)

\* chunk length of a SHA-2 hasher, rate of a SHA-3 one
HBlockLen(a) ==
    IF a \in Sha2Algs THEN Sha2Params(a).chunk ELSE 200 - (2 * Sha3Params(a).B)

\* ------------------------------------------------------------------------
\* A hasher driven by its caller: init, then any sequence of update, finish
\* and reset.
\* ------------------------------------------------------------------------

MaxHashOps == 5

\* Lengths of the slices handed to update: empty, one byte, and one byte
\* short of the hasher's chunk (rate); two calls fill a chunk exactly or
\* cross its boundary inside a slice.
UpdateLens(a) == {0, 1, HBlockLen(a) - 1}

\* The Digest value is not in use while a hasher is driven.
DigestIdle == dg = <<>> /\ dstr = <<>> /\ dparsed = [ok |-> FALSE, err |-> "None"] /\ dpc = "idle"

NotRun == [ran |-> FALSE]

\* No Merkle computation is under way.
MerkleIdle ==
    /\ mL = <<>> /\ mi = 0 /\ mroot = NotRun /\ mproof = NotRun /\ mproved = <<>>
    /\ lproof = NotRun

\* No BlockStream, Cache or heap is in use.
UtilIdle ==
    /\ strm = [open |-> FALSE]
    /\ cache = [made |-> FALSE]
    /\ heap = [made |-> FALSE]
    /\ mheap = [made |-> FALSE]

\* the Writer objects of the program
Writers == {"w1"}

NoCall == [op |-> "none"]

NoTamper == [done |-> FALSE]

ClosedWriter == [open |-> FALSE, prev_hash |-> <<>>, buf |-> <<>>, pos |-> 0]

ClosedReader == [open |-> FALSE, pos |-> 0]

\* No store file is in use.
StoreIdle ==
    /\ fexists = FALSE /\ fbytes = <<>>
    /\ writers = [w \in Writers |-> ClosedWriter]
    /\ reader = ClosedReader
    /\ res = NoCall /\ tamper = NoTamper /\ iofails = 0

HashInit ==
    /\ DigestIdle
    /\ MerkleIdle
    /\ UtilIdle
    /\ StoreIdle
    /\ alg \in Algs
    /\ hctx = HInit(alg)
    /\ hmsg = <<>>
    /\ horigin = "init"
    /\ hfin = 0
    /\ hdigest = <<>>
    /\ hchunks = <<>>
    /\ hprior = 0
    /\ hops = 0

\* ctx.update(data): the k-th call on the context carries bytes of value k
DoUpdate ==
    /\ hops < MaxHashOps
    /\ \E n \in UpdateLens(alg) :
         LET data == Rep(n, Byte(hops + 1))
         IN /\ hctx' = HUpdate(alg, hctx, data)
            /\ hmsg' = IF hfin = 0 THEN hmsg \o data ELSE hmsg
            /\ hchunks' = IF hfin = 0 THEN Append(hchunks, n) ELSE hchunks
    /\ hops' = hops + 1
    /\ UNCHANGED <<alg, horigin, hfin, hdigest, hprior>>
    /\ UNCHANGED <<digestVars, merkleVars, storeVars, utilVars>>

\* ctx.finish(&mut digest)
DoFinish ==
    /\ hops < MaxHashOps
    /\ LET r == HFinish(alg, hctx)
       IN /\ hctx' = r.ctx
          /\ hdigest' = IF hfin = 0 THEN r.digest ELSE hdigest
    /\ hfin' = hfin + 1
    /\ hops' = hops + 1
    /\ UNCHANGED <<alg, hmsg, horigin, hchunks, hprior>>
    /\ UNCHANGED <<digestVars, merkleVars, storeVars, utilVars>>

\* ctx.reset()
DoReset ==
    /\ hops < MaxHashOps
    /\ horigin = "init"
    /\ hctx' = HReset(alg, hctx)
    /\ hmsg' = <<>>
    /\ hchunks' = <<>>
    /\ horigin' = "reset"
    /\ hfin' = 0
    /\ hdigest' = <<>>
    /\ hprior' = hops
    /\ hops' = hops + 1
    /\ UNCHANGED alg
    /\ UNCHANGED <<digestVars, merkleVars, storeVars, utilVars>>

HashNext == DoUpdate \/ DoFinish \/ DoReset

SpecHash == HashInit /\ [][HashNext]_vars

\* One-shot hash of a whole message with a freshly initialised hasher.
OneShot(a, M) == HFinish(a, HUpdate(a, HInit(a), M)).digest

\* C1: feeding a fresh context the chunks m1..mk one update at a time gives
\* the same context (chaining state, buffer, buffered count, length) as one
\* update of the concatenation, and so finish gives the same digest.
UpdateIsAssociative ==
    horigin = "init" =>
        /\ hfin = 0 => hctx = HUpdate(alg, HInit(alg), hmsg)
        /\ hfin = 1 => hdigest = OneShot(alg, hmsg)

\* a message fed in three chunks, one of them empty, that crosses a chunk
\* boundary in the middle of a chunk, and was then finished
UpdateIsAssociativeWitness ==
    /\ horigin = "init"
    /\ hfin = 1
    /\ Len(hchunks) = 3
    /\ \E i \in 1..3 : hchunks[i] = 0
    /\ \E i \in 1..3 : hchunks[i] = HBlockLen(alg) - 1
    /\ Len(hmsg) > HBlockLen(alg)

\* C8: reset() puts a used context in the state of init(): the context
\* after reset and further updates is the one a fresh context reaches, and
\* finish gives the digest of a fresh context.
ResetIsInit ==
    horigin = "reset" =>
        /\ hfin = 0 => hctx = HUpdate(alg, HInit(alg), hmsg)
        /\ hfin = 1 => hdigest = OneShot(alg, hmsg)

\* init; update; finish; reset; update; finish, as the repository's tests do
ResetIsInitWitness ==
    /\ horigin = "reset"
    /\ hprior >= 2
    /\ hfin = 1
    /\ Len(hmsg) > 0

\* ------------------------------------------------------------------------
\* Digest<S>: Display and FromStr (digest.rs)
\* ------------------------------------------------------------------------

\* S, the digest width in bytes, of the Digest under test
DigestLen == 2

\* Byte values a digest is built from: both nibbles below and above ten,
\* a zero high nibble, and the extremes.
ByteSamples == {0, 1, 9, 10, 15, 16, 154, 160, 171, 255}

HexDigits == <<"0", "1", "2", "3", "4", "5", "6", "7", "8", "9", "a", "b", "c", "d", "e", "f">>

\* format!("{:x}", n): lower-case hex without padding
FormatByteNoPad(n) ==
    IF n < 16 THEN <<HexDigits[n + 1]>>
    ELSE <<HexDigits[(n \div 16) + 1], HexDigits[(n % 16) + 1]>>

\* format!("{:02x}", n): two lower-case hex digits, zero padded
FormatByte(n) == <<HexDigits[(n \div 16) + 1], HexDigits[(n % 16) + 1]>>

RECURSIVE DigestFmt(_, _, _)
\* Display::fmt: `for n in self.0 { data.push_str(..) }`
DigestFmt(d, i, data) ==
    IF i > Len(d) THEN data
    ELSE DigestFmt(d, i + 1, data \o FormatByte(d[i][1]))

\* d.to_string()
DigestToString(d) == DigestFmt(d, 1, <<>>)

\* char::to_ascii_lowercase on the characters a string here is made of
ToAsciiLowercase(c) ==
    CASE c = "A" -> "a" [] c = "B" -> "b" [] c = "C" -> "c"
      [] c = "D" -> "d" [] c = "E" -> "e" [] c = "F" -> "f"
      [] c = "X" -> "x" [] OTHER -> c

RECURSIVE TrimStart(_)
TrimStart(str) ==
    IF str # <<>> /\ Head(str) = " " THEN TrimStart(Tail(str)) ELSE str

RECURSIVE TrimEnd(_)
TrimEnd(str) ==
    IF str # <<>> /\ str[Len(str)] = " "
    THEN TrimEnd(SubSeq(str, 1, Len(str) - 1))
    ELSE str

\* str::trim
Trim(str) == TrimEnd(TrimStart(str))

\* str::strip_prefix("0x"), the string itself when the prefix is absent
StripPrefix0x(str) ==
    IF Len(str) >= 2 /\ str[1] = "0" /\ str[2] = "x"
    THEN SubSeq(str, 3, Len(str))
    ELSE str

\* char::to_digit(16): the digit value, or -1 for a character that is none
ToDigit16(c) ==
    LET lc == ToAsciiLowercase(c)
    IN IF \E k \in 1..16 : HexDigits[k] = lc /\ lc # "x"
       THEN (CHOOSE k \in 1..16 : HexDigits[k] = lc) - 1
       ELSE -1

\* u8::from_str_radix(two characters, 16): a leading '+' is a sign, every
\* other character must be a digit; -1 stands for Err(ParseIntError)
U8FromStrRadix16(two) ==
    LET digits == IF two[1] = "+" THEN <<two[2]>> ELSE two
    IN IF \E k \in 1..Len(digits) : ToDigit16(digits[k]) < 0 THEN -1
       ELSE IF Len(digits) = 1 THEN ToDigit16(digits[1])
       ELSE 16 * ToDigit16(digits[1]) + ToDigit16(digits[2])

\* Digest::<S>::from_str
DigestFromStr(S, string) ==
    LET s   == [i \in 1..Len(string) |-> ToAsciiLowercase(string[i])]
        src == StripPrefix0x(Trim(s))
    IN IF Len(src) > S * 2 THEN [ok |-> FALSE, err |-> "StringTooLong"]
       ELSE IF Len(src) < S * 2 THEN [ok |-> FALSE, err |-> "StringTooShort"]
       ELSE
         LET vals == [i \in 1..S |-> U8FromStrRadix16(SubSeq(src, 2 * i - 1, 2 * i))]
         IN IF \E i \in 1..S : vals[i] < 0
            THEN [ok |-> FALSE, err |-> "ParseError"]
            ELSE [ok |-> TRUE, digest |-> [i \in 1..S |-> Byte(vals[i])]]

\* No hasher is driven while a Digest is converted.
HashIdle ==
    /\ alg = "None" /\ hctx = <<>> /\ hmsg = <<>> /\ horigin = "idle"
    /\ hfin = 0 /\ hdigest = <<>> /\ hchunks = <<>> /\ hprior = 0 /\ hops = 0

DigestInit ==
    /\ HashIdle
    /\ MerkleIdle
    /\ UtilIdle
    /\ StoreIdle
    /\ dg \in [1..DigestLen -> {Byte(v) : v \in ByteSamples}]
    /\ dstr = <<>>
    /\ dparsed = [ok |-> FALSE, err |-> "None"]
    /\ dpc = "new"

\* let s = d.to_string()
DoFormat ==
    /\ dpc = "new"
    /\ dstr' = DigestToString(dg)
    /\ dpc' = "formatted"
    /\ UNCHANGED <<dg, dparsed>>
    /\ UNCHANGED <<hashVars, merkleVars, storeVars, utilVars>>

\* Digest::<S>::from_str(&s)
DoParse ==
    /\ dpc = "formatted"
    /\ dparsed' = DigestFromStr(DigestLen, dstr)
    /\ dpc' = "parsed"
    /\ UNCHANGED <<dg, dstr>>
    /\ UNCHANGED <<hashVars, merkleVars, storeVars, utilVars>>

DigestNext == DoFormat \/ DoParse

SpecDigest == DigestInit /\ [][DigestNext]_vars

\* C6: the hex string of a digest has exactly 2S characters, all of them in
\* 0-9a-f, and parsing it gives back the digest.
HexRoundTrip ==
    /\ dpc \in {"formatted", "parsed"} =>
         /\ Len(dstr) = 2 * DigestLen
         /\ \A i \in 1..Len(dstr) : \E k \in 1..16 : HexDigits[k] = dstr[i]
    /\ dpc = "parsed" => dparsed = [ok |-> TRUE, digest |-> dg]

\* a digest with a byte below 16 (a leading zero digit) and a byte with a
\* letter digit, formatted and parsed back
HexRoundTripWitness ==
    /\ dpc = "parsed"
    /\ \E i \in 1..DigestLen : dg[i][1] < 16
    /\ \E i \in 1..DigestLen : dg[i][1] >= 160

\* ------------------------------------------------------------------------
\* The hasher H of the Merkle engine and of the block store
\* ------------------------------------------------------------------------

\* merkle.rs and io.rs are generic over H: OneWayHasher<MDLEN>.  They are
\* run here with a hasher of the SHA-2 construction (transform!, wrap_up!)
\* whose widths are small: digests of MDLEN bytes, chunks of ChunkLen bytes
\* and a length field of LenBytes bytes.
MDLEN == 2

ChunkLen == 4

LenBytes == 1

HP == [chunk |-> ChunkLen, lenBytes |-> LenBytes, mdlen |-> MDLEN, iv |-> "INITIAL_VALUES"]

\* ------------------------------------------------------------------------
\* Merkle engine (merkle.rs)
\* ------------------------------------------------------------------------

MaxLeaves == 5

NumLeafVals == 2

\* the digests leaves are drawn from
LeafVals == {Rep(MDLEN, Byte(v)) : v \in 1..NumLeafVals}

\* the `for i in 0..leaves.len() - 1` scan for two equal neighbours
HasEqualNeighbours(leaves) ==
    \E i \in 1..(Len(leaves) - 1) : leaves[i] = leaves[i + 1]

\* PadOdd pushing a copy of the first leaf instead of the last
PadOddWithFirst(leaves) ==
    IF Len(leaves) % 2 # 0 THEN Append(leaves, leaves[1]) ELSE leaves

\* `if leaves.len() & 1 != 0 { leaves.push(*leaves.last()) }`
PadOdd(leaves) ==
    IF Len(leaves) % 2 # 0 THEN Append(leaves, leaves[Len(leaves)]) ELSE leaves

\* hasher.update(a).update(b).finish(&mut out): the digest written and the
\* hasher as the call leaves it
HashPair(hasher, a, b) ==
    Sha2Finish(HP, Sha2Update(HP, Sha2Update(HP, hasher, a), b))

RECURSIVE HashLevel(_, _, _)
\* `for i in 0..(leaves.len() / 2)`: leaves[i] is overwritten in place and
\* the one hasher is carried from pair to pair
HashLevel(leaves, i, hasher) ==
    IF i >= Len(leaves) \div 2 THEN [leaves |-> leaves, hasher |-> hasher]
    ELSE
        LET r == HashPair(hasher, leaves[(i * 2) + 1], leaves[(i * 2 + 1) + 1])
        IN HashLevel([leaves EXCEPT ![i + 1] = r.digest], i + 1, r.ctx)

\* Truncate keeping the first element only
TruncateToOne(leaves) == SubSeq(leaves, 1, 1)

\* leaves.truncate(leaves.len() / 2)
Truncate(leaves) == SubSeq(leaves, 1, Len(leaves) \div 2)

RECURSIVE RootLoopPadFirst(_, _, _)
\* compute_root with the scan for equal neighbours moved after the padding
RootLoopPadFirst(leaves, mutation, hasher) ==
    IF Len(leaves) <= 1
    THEN [ran |-> TRUE, ok |-> TRUE, leaves |-> leaves, mutation |-> mutation]
    ELSE
        LET padded == PadOdd(leaves)
            m1     == mutation \/ HasEqualNeighbours(padded)
            r      == HashLevel(padded, 0, hasher)
        IN RootLoopPadFirst(Truncate(r.leaves), m1, r.hasher)

RECURSIVE RootLoop(_, _, _)
\* compute_root: the `while leaves.len() > 1` loop
RootLoop(leaves, mutation, hasher) ==
    IF Len(leaves) <= 1
    THEN [ran |-> TRUE, ok |-> TRUE, leaves |-> leaves, mutation |-> mutation]
    ELSE
        LET m1 == mutation \/ HasEqualNeighbours(leaves)
            r  == HashLevel(PadOdd(leaves), 0, hasher)
        IN RootLoop(Truncate(r.leaves), m1, r.hasher)

\* merkle::compute_root
ComputeRoot(leaves) == RootLoop(leaves, FALSE, Sha2Init(HP))

\* ChildNode::Left(sibling) / ChildNode::Right(sibling)
ChildNode(side, sibling) == [side |-> side, sibling |-> sibling]

\* leaves[index ^ 1], index counted from 0
SiblingOf(leaves, index) ==
    leaves[(IF index % 2 = 1 THEN index - 1 ELSE index + 1) + 1]

RECURSIVE ProofLoop(_, _, _, _, _)
\* compute_proof: the `while leaves.len() > 1` loop
ProofLoop(leaves, index, proof, mutation, hasher) ==
    IF Len(leaves) <= 1
    THEN [ran |-> TRUE, ok |-> TRUE, leaves |-> leaves, proof |-> proof,
          mutation |-> mutation]
    ELSE
        LET m1     == mutation \/ HasEqualNeighbours(leaves)
            padded == PadOdd(leaves)
            node   == IF index % 2 = 1
                      THEN ChildNode("Left", SiblingOf(padded, index))
                      ELSE ChildNode("Right", SiblingOf(padded, index))
            r      == HashLevel(padded, 0, hasher)
        IN ProofLoop(Truncate(r.leaves), index \div 2, Append(proof, node), m1, r.hasher)

\* merkle::compute_proof
ComputeProof(leaves, index) ==
    IF index >= Len(leaves)
    THEN [ran |-> TRUE, ok |-> FALSE, err |-> "InvalidIndex", leaves |-> leaves]
    ELSE ProofLoop(leaves, index, <<>>, FALSE, Sha2Init(HP))

RECURSIVE ProveLoop(_, _, _, _)
\* prove: the `for node in proof.iter()` loop over one hasher
ProveLoop(proof, k, digest, hasher) ==
    IF k > Len(proof) THEN digest
    ELSE
        LET r == IF proof[k].side = "Left"
                 THEN HashPair(hasher, proof[k].sibling, digest)
                 ELSE HashPair(hasher, digest, proof[k].sibling)
        IN ProveLoop(proof, k + 1, r.digest, r.ctx)

\* merkle::prove
Prove(proof, digest) == ProveLoop(proof, 1, digest, Sha2Init(HP))

RECURSIVE SeqsUpTo(_, _)
\* all sequences over S of length 0..n
SeqsUpTo(S, n) ==
    IF n = 0 THEN {<<>>}
    ELSE LET shorter == SeqsUpTo(S, n - 1)
         IN shorter \cup {Append(q, x) : q \in {r \in shorter : Len(r) = n - 1}, x \in S}

MerkleInit ==
    /\ HashIdle
    /\ DigestIdle
    /\ StoreIdle
    /\ UtilIdle
    /\ mL \in SeqsUpTo(LeafVals, MaxLeaves)
    /\ mi \in 0..MaxLeaves
    /\ mroot = NotRun
    /\ mproof = NotRun
    /\ mproved = <<>>
    /\ lproof = NotRun

\* compute_root::<MDLEN, H>(&mut leaves) on a copy of mL
DoComputeRoot ==
    /\ ~mroot.ran
    /\ mroot' = ComputeRoot(mL)
    /\ UNCHANGED <<mL, mi, mproof, mproved, lproof>>
    /\ UNCHANGED <<hashVars, digestVars, storeVars, utilVars>>

\* compute_proof::<MDLEN, H>(&mut leaves, index) on a copy of mL
DoComputeProof ==
    /\ ~mproof.ran
    /\ mproof' = ComputeProof(mL, mi)
    /\ UNCHANGED <<mL, mi, mroot, mproved, lproof>>
    /\ UNCHANGED <<hashVars, digestVars, storeVars, utilVars>>

\* prove::<MDLEN, H>(proof, &mut digest) with digest = mL[mi]
DoProve ==
    /\ mproof.ran /\ mproof.ok
    /\ mproved = <<>>
    /\ mproved' = Prove(mproof.proof, mL[mi + 1])
    /\ UNCHANGED <<mL, mi, mroot, mproof, lproof>>
    /\ UNCHANGED <<hashVars, digestVars, storeVars, utilVars>>

MerkleNext == DoComputeRoot \/ DoComputeProof \/ DoProve

SpecMerkle == MerkleInit /\ [][MerkleNext]_vars

\* C2: for a non-empty leaf list L and i < |L|, folding compute_proof(L, i)
\* over L[i] with prove gives the root compute_root leaves in leaves[0].
ProofFoldsToRoot ==
    (mroot.ran /\ mproved # <<>>) => mproved = mroot.leaves[1]

\* ------------------------------------------------------------------------
\* Hash-chained block store (io.rs)
\* ------------------------------------------------------------------------

\* DATALEN of Reader<MDLEN, DATALEN, H> / Writer<MDLEN, DATALEN, H>
DATALEN == 1

\* values the bytes of a data section are drawn from: 1..NumDataVals
NumDataVals == 2

\* the store is not grown beyond this many blocks
MaxBlocks == 3

\* the file system returns at most this many I/O errors
MaxIoFailures == 1

\* Reader::block_size / Writer::block_size
BlockSize == MDLEN + DATALEN

Max(a, b) == IF a > b THEN a ELSE b

\* H::init().update(bytes).finish(&mut digest)
HashBytes(bytes) == Sha2Finish(HP, Sha2Update(HP, Sha2Init(HP), bytes)).digest

\* validate_size
ValidateSize(size) ==
    IF size = 0 THEN "FileIsEmpty"
    ELSE IF size % BlockSize # 0 THEN "InvalidFileSize"
    ELSE "Ok"

\* block_count
BlockCount(size) ==
    IF size = 0 THEN [ok |-> FALSE, err |-> "FileIsEmpty"]
    ELSE IF size % BlockSize # 0 THEN [ok |-> FALSE, err |-> "InvalidFileSize"]
    ELSE [ok |-> TRUE, count |-> size \div BlockSize]

\* Read::read_exact of n bytes at byte position pos
ReadExact(file, pos, n) ==
    IF pos + n <= Len(file)
    THEN [ok |-> TRUE, bytes |-> SubSeq(file, pos + 1, pos + n), pos |-> pos + n]
    ELSE [ok |-> FALSE, err |-> "IOError", pos |-> Max(pos, Len(file))]

\* Write::write of bytes at byte position pos of a file opened with
\* write(true): bytes in place are overwritten, the file grows as needed
WriteAt(file, pos, bytes) ==
    [i \in 1..Max(Len(file), pos + Len(bytes)) |->
        IF i > pos /\ i <= pos + Len(bytes) THEN bytes[i - pos]
        ELSE IF i <= Len(file) THEN file[i]
        ELSE Byte(0)]

\* block number b (from 0) of the file
BlockAt(file, b) == SubSeq(file, b * BlockSize + 1, (b + 1) * BlockSize)

\* Reader::validate_block_at with the genesis test `index == 0` taken one
\* block too far.
ValidateBlockAtGenesisOffByOne(file, index) ==
    LET bc == BlockCount(Len(file))
    IN IF ~bc.ok THEN [result |-> bc.err, val |-> 0, moved |-> FALSE]
       ELSE IF index >= bc.count
       THEN [result |-> "BlockNumDoesNotExist", val |-> 0, moved |-> FALSE]
       ELSE IF index <= 1 THEN [result |-> "Ok", val |-> 0, moved |-> FALSE]
       ELSE
         LET pos         == (index - 1) * BlockSize
             r1          == ReadExact(file, pos, BlockSize)
             prev_digest == HashBytes(r1.bytes)
             r2          == ReadExact(file, r1.pos, MDLEN)
         IN IF r2.bytes # prev_digest
            THEN [result |-> "InvalidBlockHash", val |-> index, moved |-> TRUE, pos |-> r2.pos]
            ELSE [result |-> "Ok", val |-> 0, moved |-> TRUE, pos |-> r2.pos]

\* Reader::validate_block_at with the range test `index >= block_count`
\* weakened to `index > block_count`.
ValidateBlockAtRangeOffByOne(file, index) ==
    LET bc == BlockCount(Len(file))
    IN IF ~bc.ok THEN [result |-> bc.err, val |-> 0, moved |-> FALSE]
       ELSE IF index > bc.count
       THEN [result |-> "BlockNumDoesNotExist", val |-> 0, moved |-> FALSE]
       ELSE IF index = 0 THEN [result |-> "Ok", val |-> 0, moved |-> FALSE]
       ELSE
         LET pos == (index - 1) * BlockSize
             r1  == ReadExact(file, pos, BlockSize)
             r2  == ReadExact(file, r1.pos, MDLEN)
         IN IF ~r2.ok
            THEN [result |-> "IOError", val |-> 0, moved |-> TRUE, pos |-> r2.pos]
            ELSE IF r2.bytes # HashBytes(r1.bytes)
            THEN [result |-> "InvalidBlockHash", val |-> index, moved |-> TRUE, pos |-> r2.pos]
            ELSE [result |-> "Ok", val |-> 0, moved |-> TRUE, pos |-> r2.pos]

\* Reader::validate_block_at: the Result, the payload of InvalidBlockHash,
\* and the stream position when the call moved it
ValidateBlockAt(file, index) ==
    LET bc == BlockCount(Len(file))
    IN IF ~bc.ok THEN [result |-> bc.err, val |-> 0, moved |-> FALSE]
       ELSE IF index >= bc.count
       THEN [result |-> "BlockNumDoesNotExist", val |-> 0, moved |-> FALSE]
       ELSE IF index = 0 THEN [result |-> "Ok", val |-> 0, moved |-> FALSE]
       ELSE
         LET pos         == (index - 1) * BlockSize
             r1          == ReadExact(file, pos, BlockSize)
             prev_digest == HashBytes(r1.bytes)
             r2          == ReadExact(file, r1.pos, MDLEN)
         IN IF r2.bytes # prev_digest
            THEN [result |-> "InvalidBlockHash", val |-> index, moved |-> TRUE, pos |-> r2.pos]
            ELSE [result |-> "Ok", val |-> 0, moved |-> TRUE, pos |-> r2.pos]

RECURSIVE ValidateLoopNoReset(_, _, _, _, _)
\* validate_all_blocks without the hasher.reset() at the head of the loop
ValidateLoopNoReset(file, count, b, buf, hasher) ==
    IF b >= count THEN [result |-> "Ok", val |-> 0, pos |-> b * BlockSize]
    ELSE
        LET h  == Sha2Finish(HP, Sha2Update(HP, hasher, buf))
            r  == ReadExact(file, b * BlockSize, BlockSize)
        IN IF SubSeq(r.bytes, 1, MDLEN) # h.digest
           THEN [result |-> "InvalidBlockHash", val |-> b, pos |-> r.pos]
           ELSE ValidateLoopNoReset(file, count, b + 1, r.bytes, h.ctx)

RECURSIVE ValidateLoop(_, _, _, _, _)
\* Reader::validate_all_blocks: `for b in (0..block_count).skip(1)`; buf is
\* the block read last
ValidateLoop(file, count, b, buf, hasher) ==
    IF b >= count THEN [result |-> "Ok", val |-> 0, pos |-> b * BlockSize]
    ELSE
        LET h  == Sha2Finish(HP, Sha2Update(HP, Sha2Reset(HP, hasher), buf))
            r  == ReadExact(file, b * BlockSize, BlockSize)
        IN IF SubSeq(r.bytes, 1, MDLEN) # h.digest
           THEN [result |-> "InvalidBlockHash", val |-> b, pos |-> r.pos]
           ELSE ValidateLoop(file, count, b + 1, r.bytes, h.ctx)

\* Reader::validate_all_blocks with the loop entered at block 2: the header
\* of block 1 is never compared.
ValidateAllBlocksSkipFirst(file) ==
    LET bc == BlockCount(Len(file))
    IN IF ~bc.ok THEN [result |-> bc.err, val |-> 0, moved |-> FALSE]
       ELSE IF bc.count < 2
       THEN [result |-> "Ok", val |-> 0, moved |-> TRUE, pos |-> BlockSize]
       ELSE
         LET r1 == ReadExact(file, BlockSize, BlockSize)
             v  == ValidateLoop(file, bc.count, 2, r1.bytes, Sha2Init(HP))
         IN [result |-> v.result, val |-> v.val, moved |-> TRUE, pos |-> v.pos]

\* Reader::validate_all_blocks
ValidateAllBlocks(file) ==
    LET bc == BlockCount(Len(file))
    IN IF ~bc.ok THEN [result |-> bc.err, val |-> 0, moved |-> FALSE]
       ELSE
         LET r0 == ReadExact(file, 0, BlockSize)
             v  == ValidateLoop(file, bc.count, 1, r0.bytes, Sha2Init(HP))
         IN [result |-> v.result, val |-> v.val, moved |-> TRUE, pos |-> v.pos]

\* Writer::new: the Result and the Writer built.  path.is_file() is false
\* for a path that does not exist; Reader::new(path).unwrap() panics when
\* validate_size rejects the file.
WriterNew(exists, file) ==
    IF ~exists THEN [result |-> "PathIsNotAFile", writer |-> ClosedWriter]
    ELSE IF ValidateSize(Len(file)) # "Ok"
    THEN [result |-> "Panic", writer |-> ClosedWriter]
    ELSE
        LET last      == ReadExact(file, Len(file) - BlockSize, BlockSize)
            prev_hash == IF Len(file) # 0 THEN HashBytes(last.bytes)
                         ELSE Rep(MDLEN, Byte(0))
        IN [result |-> "Ok",
            writer |-> [open |-> TRUE, prev_hash |-> prev_hash, buf |-> <<>>, pos |-> 0]]

\* Writer::append with the prev_hash register advanced (over the DATALEN
\* bytes of data) before the block is written, so that an I/O error leaves
\* the register changed.
WriterAppendHashFirst(wr, file, data, io, k) ==
    IF Len(data) # DATALEN
    THEN [result |-> "InvalidSliceLength", writer |-> wr, file |-> file, flushed |-> FALSE]
    ELSE IF io = "seek"
    THEN [result |-> "IOError", writer |-> wr, file |-> file, flushed |-> FALSE]
    ELSE
        LET file1 == WriteAt(file, wr.pos, wr.buf)
            end   == Len(file1)
            block == wr.prev_hash \o data
            next  == HashBytes(block)
        IN IF io = "flush"
           THEN [result |-> "IOError",
                 writer |-> [wr EXCEPT !.buf = SubSeq(block, k + 1, Len(block)),
                                       !.pos = end + k,
                                       !.prev_hash = next],
                 file |-> WriteAt(file1, end, SubSeq(block, 1, k)),
                 flushed |-> FALSE]
           ELSE [result |-> "Ok",
                 writer |-> [wr EXCEPT !.buf = <<>>, !.pos = end + Len(block),
                                       !.prev_hash = next],
                 file |-> WriteAt(file1, end, block),
                 flushed |-> TRUE]

\* Writer::append.  io names the call the file system fails, if any: "seek"
\* (nothing is written), or "flush" after k bytes of the buffered block
\* reached the file, the rest staying in the BufWriter.  BufWriter::seek
\* first writes what an earlier failed flush left in the buffer, at the
\* cursor.  After the flush, `&data[0..block_size]` is a slice of
\* block_size = MDLEN + DATALEN bytes of the DATALEN bytes of data: the
\* index is out of range and the call panics there.
WriterAppend(wr, file, data, io, k) ==
    IF Len(data) # DATALEN
    THEN [result |-> "InvalidSliceLength", writer |-> wr, file |-> file, flushed |-> FALSE]
    ELSE IF io = "seek"
    THEN [result |-> "IOError", writer |-> wr, file |-> file, flushed |-> FALSE]
    ELSE
        LET file1 == WriteAt(file, wr.pos, wr.buf)
            end   == Len(file1)
            block == wr.prev_hash \o data
        IN IF io = "flush"
           THEN [result |-> "IOError",
                 writer |-> [wr EXCEPT !.buf = SubSeq(block, k + 1, Len(block)),
                                       !.pos = end + k],
                 file |-> WriteAt(file1, end, SubSeq(block, 1, k)),
                 flushed |-> FALSE]
           ELSE
             LET wr1   == [wr EXCEPT !.buf = <<>>, !.pos = end + Len(block)]
                 file2 == WriteAt(file1, end, block)
             IN IF BlockSize > Len(data)
                THEN [result |-> "Panic", writer |-> wr1, file |-> file2, flushed |-> TRUE]
                ELSE [result |-> "Ok",
                      writer |-> [wr1 EXCEPT !.prev_hash =
                          Sha2Finish(HP, Sha2Update(HP,
                              Sha2Update(HP, Sha2Init(HP), wr.prev_hash),
                              SubSeq(data, 1, BlockSize))).digest],
                      file |-> file2, flushed |-> TRUE]

\* the data slices handed to append: DATALEN bytes of one value, and a
\* slice one byte too long
DataVals ==
    {Rep(DATALEN, Byte(v)) : v \in 1..NumDataVals} \cup {Rep(DATALEN + 1, Byte(1))}

\* how many bytes of a block reach the file before a flush fails
PartialWrites == {0, 1}

\* the file of a store as the program finds it: no file, an empty file, or
\* a file holding a genesis block
StoreInit ==
    /\ HashIdle
    /\ DigestIdle
    /\ MerkleIdle
    /\ UtilIdle
    /\ \/ fexists = FALSE /\ fbytes = <<>>
       \/ fexists = TRUE /\ fbytes = <<>>
       \/ fexists = TRUE
          /\ \E v \in 1..NumDataVals : fbytes = Rep(MDLEN, Byte(0)) \o Rep(DATALEN, Byte(v))
    /\ writers = [w \in Writers |-> ClosedWriter]
    /\ reader = ClosedReader
    /\ res = NoCall
    /\ tamper = NoTamper
    /\ iofails = 0

IdleOthers == UNCHANGED <<hashVars, digestVars, merkleVars, utilVars>>

\* Writer::new(path); the store is written first and read afterwards
DoWriterNew(w) ==
    /\ ~tamper.done
    /\ ~reader.open
    /\ LET r == WriterNew(fexists, fbytes)
       IN /\ writers' = [writers EXCEPT ![w] = r.writer]
          /\ res' = [op |-> "Writer::new", w |-> w, result |-> r.result, val |-> 0,
                     existed |-> fexists, size |-> Len(fbytes)]
    /\ UNCHANGED <<fexists, fbytes, reader, tamper, iofails>>
    /\ IdleOthers

\* writer.append(data); a panic is caught by the caller, who keeps the
\* Writer as the call left it
DoAppend(w) ==
    /\ ~tamper.done
    /\ ~reader.open
    /\ writers[w].open
    /\ Len(fbytes) < MaxBlocks * BlockSize
    /\ \E data \in DataVals :
       \E io \in {"none", "seek", "flush"} :
       \E k \in PartialWrites :
         /\ io # "none" => iofails < MaxIoFailures
         /\ io # "flush" => k = 0
         /\ LET r == WriterAppend(writers[w], fbytes, data, io, k)
            IN /\ writers' = [writers EXCEPT ![w] = r.writer]
               /\ fbytes' = r.file
               /\ res' = [op |-> "append", w |-> w, result |-> r.result, val |-> 0,
                          data |-> data, prev |-> writers[w].prev_hash,
                          flushed |-> r.flushed, io |-> io]
               /\ iofails' = IF r.result = "IOError" THEN iofails + 1 ELSE iofails
    /\ UNCHANGED <<fexists, reader, tamper>>
    /\ IdleOthers

\* Reader::new(path)
DoReaderNew ==
    /\ ~reader.open
    /\ LET result == IF ~fexists THEN "IOError" ELSE ValidateSize(Len(fbytes))
       IN /\ reader' = IF result = "Ok" THEN [open |-> TRUE, pos |-> 0] ELSE reader
          /\ res' = [op |-> "Reader::new", result |-> result, val |-> 0]
    /\ UNCHANGED <<fexists, fbytes, writers, tamper, iofails>>
    /\ IdleOthers

\* reader.seek(index): the byte offset index * block_size is handed to
\* BufReader::seek, whose return value (the new byte position) is returned
DoSeek ==
    /\ reader.open
    /\ \E index \in 0..MaxBlocks :
         LET pos == index * BlockSize
         IN /\ reader' = [reader EXCEPT !.pos = pos]
            /\ res' = [op |-> "seek", index |-> index, result |-> "Ok", val |-> pos]
    /\ UNCHANGED <<fexists, fbytes, writers, tamper, iofails>>
    /\ IdleOthers

\* reader.stream_position()
DoStreamPosition ==
    /\ reader.open
    /\ res.op = "seek"
    /\ LET pos == reader.pos
       IN res' = [op |-> "stream_position", index |-> res.index,
                  result |-> IF pos % BlockSize # 0 THEN "BadStreamPosition" ELSE "Ok",
                  val |-> pos]
    /\ UNCHANGED <<fexists, fbytes, writers, reader, tamper, iofails>>
    /\ IdleOthers

\* reader.validate_block_at(index)
DoValidateBlockAt ==
    /\ reader.open
    /\ \E index \in 0..MaxBlocks :
         LET r == ValidateBlockAt(fbytes, index)
         IN /\ reader' = IF r.moved THEN [reader EXCEPT !.pos = r.pos] ELSE reader
            /\ res' = [op |-> "validate_block_at", index |-> index,
                       result |-> r.result, val |-> r.val]
    /\ UNCHANGED <<fexists, fbytes, writers, tamper, iofails>>
    /\ IdleOthers

\* reader.validate_all_blocks()
DoValidateAllBlocks ==
    /\ reader.open
    /\ LET r == ValidateAllBlocks(fbytes)
       IN /\ reader' = IF r.moved THEN [reader EXCEPT !.pos = r.pos] ELSE reader
          /\ res' = [op |-> "validate_all_blocks", result |-> r.result, val |-> r.val]
    /\ UNCHANGED <<fexists, fbytes, writers, tamper, iofails>>
    /\ IdleOthers

\* the header of block b (from 0) equals the hash of all bytes of block b-1,
\* for every block after the first
ChainValid(file) ==
    /\ Len(file) % BlockSize = 0
    /\ \A b \in 1..((Len(file) \div BlockSize) - 1) :
         SubSeq(BlockAt(file, b), 1, MDLEN) = HashBytes(BlockAt(file, b - 1))

\* the value a tampered byte is given; no byte the program writes has it
TamperByte == Byte(255)

\* one byte of a validly chained store is changed from outside the
\* program, between the writing and the reading of the store
DoTamper ==
    /\ ~tamper.done
    /\ ~reader.open
    /\ BlockCount(Len(fbytes)).ok
    /\ ChainValid(fbytes)
    /\ \E k \in 0..((Len(fbytes) \div BlockSize) - 1) :
       \E off \in 0..(BlockSize - 1) :
         /\ fbytes[k * BlockSize + off + 1] # TamperByte
         /\ fbytes' = [fbytes EXCEPT ![k * BlockSize + off + 1] = TamperByte]
         /\ tamper' = [done |-> TRUE, block |-> k, off |-> off, before |-> fbytes]
    /\ res' = [op |-> "tamper", result |-> "Ok", val |-> 0]
    /\ UNCHANGED <<fexists, writers, reader, iofails>>
    /\ IdleOthers

Next ==
    \/ \E w \in Writers : DoWriterNew(w)
    \/ \E w \in Writers : DoAppend(w)
    \/ DoReaderNew
    \/ DoSeek
    \/ DoStreamPosition
    \/ DoValidateBlockAt
    \/ DoValidateAllBlocks
    \/ DoTamper

Init == StoreInit

Spec == Init /\ [][Next]_vars

\* the writing of a store alone
NextWriter ==
    \/ \E w \in Writers : DoWriterNew(w)
    \/ \E w \in Writers : DoAppend(w)

SpecWriter == StoreInit /\ [][NextWriter]_vars

\* the last block of a file of whole blocks
LastBlock(file) == SubSeq(file, Len(file) - BlockSize + 1, Len(file))

\* the file that holds one block per element of datas, each written by a
\* Writer opened on the blocks before it: the first header is zero, every
\* other header is the hash of the block before
RECURSIVE BuildChain(_)
BuildChain(datas) ==
    IF datas = <<>> THEN <<>>
    ELSE LET file == BuildChain(SubSeq(datas, 1, Len(datas) - 1))
             prev_hash == IF file = <<>> THEN Rep(MDLEN, Byte(0))
                          ELSE HashBytes(LastBlock(file))
         IN file \o prev_hash \o Rep(DATALEN, Byte(datas[Len(datas)]))

\* the validation of a store that holds one to MaxBlocks validly chained
\* blocks
ValidateInit ==
    /\ HashIdle
    /\ DigestIdle
    /\ MerkleIdle
    /\ UtilIdle
    /\ fexists = TRUE
    /\ \E datas \in SeqsUpTo(1..NumDataVals, MaxBlocks) :
         /\ datas # <<>>
         /\ fbytes = BuildChain(datas)
    /\ writers = [w \in Writers |-> ClosedWriter]
    /\ reader = ClosedReader
    /\ res = NoCall
    /\ tamper = NoTamper
    /\ iofails = 0

NextValidate ==
    \/ DoTamper
    \/ DoReaderNew
    \/ DoValidateBlockAt
    \/ DoValidateAllBlocks

SpecValidate == ValidateInit /\ [][NextValidate]_vars

\* C3: every append of DATALEN bytes returns Ok (no I/O error given), and
\* validate_all_blocks returns Ok on a store that appends produced.
AppendsReturnOkAndChain ==
    /\ (res.op = "append" /\ Len(res.data) = DATALEN /\ res.io = "none")
           => res.result = "Ok"
    /\ (res.op = "validate_all_blocks" /\ iofails = 0 /\ ~tamper.done)
           => res.result = "Ok"

\* C4: right after Writer::new on a non-empty store and after every append
\* that wrote its block, prev_hash is the hash of the last block of the
\* file; append moves it to H(prev_hash || data).
WriterRegisterIsLastBlockHash ==
    /\ (res.op = "Writer::new" /\ res.result = "Ok" /\ Len(fbytes) > 0)
           => writers[res.w].prev_hash = HashBytes(LastBlock(fbytes))
    /\ (res.op = "append" /\ res.flushed)
           => /\ writers[res.w].prev_hash = HashBytes(res.prev \o res.data)
              /\ writers[res.w].prev_hash = HashBytes(LastBlock(fbytes))

\* C5 as stated: after one byte of block k, 0 < k < block_count, of a
\* validly chained store is changed, anywhere in the block,
\* validate_block_at(k) returns InvalidBlockHash(k).
TamperDetectedAtBlock ==
    (/\ tamper.done /\ tamper.block > 0
     /\ res.op = "validate_block_at" /\ res.index = tamper.block)
        => (res.result = "InvalidBlockHash" /\ res.val = tamper.block)

\* C5 as amended: a changed byte in the prev-hash header of block k,
\* 0 < k < block_count, makes validate_block_at(k) return
\* InvalidBlockHash(k); a changed byte in the data section of block k
\* leaves validate_block_at(k) returning Ok.
HeaderTamperDetectedAtBlock ==
    (/\ tamper.done /\ tamper.block > 0
     /\ res.op = "validate_block_at" /\ res.index = tamper.block)
        => IF tamper.off < MDLEN
           THEN res.result = "InvalidBlockHash" /\ res.val = tamper.block
           ELSE res.result = "Ok"

\* a header byte of the last of three blocks was changed and
\* validate_block_at reported that block
HeaderTamperDetectedWitness ==
    /\ tamper.done /\ tamper.block = 2 /\ tamper.off = MDLEN - 1
    /\ ChainValid(tamper.before)
    /\ res.op = "validate_block_at" /\ res.index = 2
    /\ res.result = "InvalidBlockHash" /\ res.val = 2

\* C7: stream positions are block indices: seek(i) returns i and
\* stream_position() after it returns i, for every i < block_count.
SeekReturnsBlockIndex ==
    (res.op \in {"seek", "stream_position"} /\ res.index < Len(fbytes) \div BlockSize)
        => (res.result = "Ok" /\ res.val = res.index)

\* C9: Writer::new on a path without a file creates an empty file, on an
\* empty file returns Ok, and in both cases prev_hash is all zero.
WriterNewOnFreshStore ==
    (res.op = "Writer::new" /\ (~res.existed \/ res.size = 0))
        => /\ res.result = "Ok"
           /\ fexists
           /\ writers[res.w].open
           /\ writers[res.w].prev_hash = Rep(MDLEN, Byte(0))

\* C10: when the file system fails the seek or the flush, append returns
\* IOError and prev_hash keeps its value; and whenever append returned Ok
\* or changed prev_hash, the whole block prev_hash || data had been flushed
\* to the end of the file.
FlushBeforeRegister ==
    res.op = "append" =>
        /\ (res.io # "none" /\ Len(res.data) = DATALEN) => res.result = "IOError"
        /\ res.result = "IOError" => writers[res.w].prev_hash = res.prev
        /\ (res.result = "Ok" \/ writers[res.w].prev_hash # res.prev)
               => (res.flushed /\ LastBlock(fbytes) = res.prev \o res.data)

\* a flush failed after one byte of the block had reached the file
FlushBeforeRegisterWitness ==
    /\ res.op = "append" /\ res.io = "flush" /\ res.result = "IOError"
    /\ Len(writers[res.w].buf) = BlockSize - 1
    /\ Len(fbytes) % BlockSize = 1

\* ---- two Writers on one store file ----

TwoWriters == {"w1", "w2"}

\* the store before either of two Writers is opened on it
TwoWritersInit ==
    /\ HashIdle
    /\ DigestIdle
    /\ MerkleIdle
    /\ UtilIdle
    /\ \/ fexists = FALSE /\ fbytes = <<>>
       \/ fexists = TRUE /\ fbytes = <<>>
       \/ fexists = TRUE
          /\ \E v \in 1..NumDataVals : fbytes = Rep(MDLEN, Byte(0)) \o Rep(DATALEN, Byte(v))
    /\ writers = [w \in TwoWriters |-> ClosedWriter]
    /\ reader = ClosedReader
    /\ res = NoCall
    /\ tamper = NoTamper
    /\ iofails = 0

\* Writer::new(path) for a Writer that is kept for the rest of the run
DoWriterOpen(w) ==
    /\ ~writers[w].open
    /\ DoWriterNew(w)

NextTwoWriters ==
    \/ \E w \in TwoWriters : DoWriterOpen(w)
    \/ \E w \in TwoWriters : DoAppend(w)
    \/ DoReaderNew
    \/ DoValidateAllBlocks

SpecTwoWriters == TwoWritersInit /\ [][NextTwoWriters]_vars

\* C11: as long as a single Writer was opened on the store (and no I/O call
\* failed), validate_all_blocks does not fail with InvalidBlockHash; only
\* the interleaved appends of two Writers can break the chain.
SingleWriterKeepsChain ==
    (/\ res.op = "validate_all_blocks"
     /\ iofails = 0
     /\ \E w \in TwoWriters : \A v \in TwoWriters \ {w} : ~writers[v].open)
        => res.result # "InvalidBlockHash"

\* C12: compute_root leaves in leaves[0] the root of the tree whose every
\* node is the one-shot hash, as a freshly initialised hasher computes it,
\* of its two children, an odd level being padded with its last entry; for
\* three leaves [a, b, c] that is H(H(a || b) || H(c || c)).
RootIsOneShotTree ==
    LET H(a, b) == HashPair(Sha2Init(HP), a, b).digest
        RECURSIVE Tree(_)
        Tree(l) == IF Len(l) <= 1 THEN l
                   ELSE LET q == PadOdd(l)
                        IN Tree([i \in 1..(Len(q) \div 2) |-> H(q[2 * i - 1], q[2 * i])])
    IN (mroot.ran /\ mL # <<>>) => mroot.leaves = Tree(mL)

\* C13: the mutation flag compute_root and compute_proof return is TRUE
\* exactly when some level, after an odd level was padded with a copy of
\* its last entry, holds two equal neighbours, the pair the padding makes
\* included.
MutationFlagScansPaddedLevels ==
    LET RECURSIVE PaddedFlag(_, _)
        PaddedFlag(l, hasher) ==
            IF Len(l) <= 1 THEN FALSE
            ELSE LET q == PadOdd(l)
                     r == HashLevel(q, 0, hasher)
                 IN HasEqualNeighbours(q) \/ PaddedFlag(Truncate(r.leaves), r.hasher)
    IN /\ mroot.ran => mroot.mutation = PaddedFlag(mL, Sha2Init(HP))
       /\ (mproof.ran /\ mproof.ok) => mproof.mutation = PaddedFlag(mL, Sha2Init(HP))

\* C13 as amended: at each level the scan for equal neighbours comes before
\* the padding, so the flag compute_root and compute_proof return is TRUE
\* exactly when some level holds two equal neighbours as it stands; the
\* copy that pads an odd level does not set it.
MutationFlagScansUnpaddedLevels ==
    LET RECURSIVE UnpaddedFlag(_, _)
        UnpaddedFlag(l, hasher) ==
            IF Len(l) <= 1 THEN FALSE
            ELSE LET r == HashLevel(PadOdd(l), 0, hasher)
                 IN HasEqualNeighbours(l) \/ UnpaddedFlag(Truncate(r.leaves), r.hasher)
    IN /\ mroot.ran => mroot.mutation = UnpaddedFlag(mL, Sha2Init(HP))
       /\ (mproof.ran /\ mproof.ok) => mproof.mutation = UnpaddedFlag(mL, Sha2Init(HP))

\* three leaves without equal neighbours were padded to four and both
\* functions returned the flag FALSE
MutationFlagOddLevelWitness ==
    /\ Len(mL) = 3 /\ ~HasEqualNeighbours(mL)
    /\ mroot.ran /\ mroot.mutation = FALSE
    /\ mproof.ran /\ mproof.ok /\ mproof.mutation = FALSE

\* C14: compute_root returns an error on an empty leaf list and Ok on every
\* other; compute_proof returns Ok when index < |leaves| and an error
\* otherwise, InvalidIndex for an index out of range.
MerkleFailsExactlyOnBadInput ==
    /\ mroot.ran => (mroot.ok <=> mL # <<>>)
    /\ mproof.ran =>
           IF mi < Len(mL) THEN mproof.ok
           ELSE ~mproof.ok /\ (mL # <<>> => mproof.err = "InvalidIndex")

\* ---- validation of the stores Writers can leave ----

\* the file that holds one block per element of datas, block b (from 1)
\* written by a Writer that was opened when block from[b + 1] was the last
\* of the file and so carries the hash of that block as its header; the
\* first block carries the zero header
RECURSIVE BuildStore(_, _)
BuildStore(datas, from) ==
    IF datas = <<>> THEN <<>>
    ELSE LET n         == Len(datas)
             file      == BuildStore(SubSeq(datas, 1, n - 1), SubSeq(from, 1, n - 1))
             prev_hash == IF n = 1 THEN Rep(MDLEN, Byte(0))
                          ELSE HashBytes(BlockAt(file, from[n]))
         IN file \o prev_hash \o Rep(DATALEN, Byte(datas[n]))

\* a genesis block followed by up to MaxBlocks appended blocks, each chained
\* from the last block or from an earlier one
ChainInit ==
    /\ HashIdle
    /\ DigestIdle
    /\ MerkleIdle
    /\ UtilIdle
    /\ fexists = TRUE
    /\ \E datas \in SeqsUpTo(1..NumDataVals, MaxBlocks + 1) :
         /\ datas # <<>>
         /\ \E from \in [1..Len(datas) -> 0..MaxBlocks] :
              /\ from[1] = 0
              /\ \A b \in 2..Len(datas) : from[b] < b - 1
              /\ fbytes = BuildStore(datas, from)
    /\ writers = [w \in Writers |-> ClosedWriter]
    /\ reader = ClosedReader
    /\ res = NoCall
    /\ tamper = NoTamper
    /\ iofails = 0

NextChain ==
    \/ DoReaderNew
    \/ DoValidateBlockAt
    \/ DoValidateAllBlocks

SpecChain == ChainInit /\ [][NextChain]_vars

\* C15: validate_all_blocks returns Ok exactly when the header of every
\* block b in 1..block_count-1 is the hash of the whole block b-1, and
\* InvalidBlockHash(b) for the smallest b where it is not; it returns Ok
\* exactly when validate_block_at(i) returns Ok for every i < block_count.
ValidateAllIffChained ==
    res.op = "validate_all_blocks" =>
        LET count == Len(fbytes) \div BlockSize
            bad   == {b \in 1..(count - 1) :
                         SubSeq(BlockAt(fbytes, b), 1, MDLEN) # HashBytes(BlockAt(fbytes, b - 1))}
        IN /\ IF bad = {} THEN res.result = "Ok"
              ELSE /\ res.result = "InvalidBlockHash"
                   /\ res.val \in bad
                   /\ \A b \in bad : res.val <= b
           /\ res.result = "Ok" <=>
                  \A i \in 0..(count - 1) : ValidateBlockAt(fbytes, i).result = "Ok"

\* a store whose blocks 2 and 3 both carry a wrong header was validated and
\* block 2 reported
ValidateAllIffChainedWitness ==
    /\ res.op = "validate_all_blocks"
    /\ res.result = "InvalidBlockHash" /\ res.val = 2
    /\ Len(fbytes) = 4 * BlockSize
    /\ SubSeq(BlockAt(fbytes, 1), 1, MDLEN) = HashBytes(BlockAt(fbytes, 0))
    /\ SubSeq(BlockAt(fbytes, 3), 1, MDLEN) # HashBytes(BlockAt(fbytes, 2))

\* C16: validate_block_at(index) returns BlockNumDoesNotExist when
\* index >= block_count, Ok for index 0, and for 0 < index < block_count Ok
\* when the header of block index is the hash of block index-1 and
\* InvalidBlockHash(index) when it is not.
ValidateBlockAtCases ==
    res.op = "validate_block_at" =>
        LET count == Len(fbytes) \div BlockSize
            index == res.index
        IN IF index >= count THEN res.result = "BlockNumDoesNotExist"
           ELSE IF index = 0 THEN res.result = "Ok"
           ELSE IF SubSeq(BlockAt(fbytes, index), 1, MDLEN) = HashBytes(BlockAt(fbytes, index - 1))
           THEN res.result = "Ok"
           ELSE res.result = "InvalidBlockHash" /\ res.val = index

\* validate_block_at was called with index = block_count on a store whose
\* last block carries a wrong header
ValidateBlockAtCasesWitness ==
    /\ res.op = "validate_block_at"
    /\ res.index = Len(fbytes) \div BlockSize
    /\ res.result = "BlockNumDoesNotExist"
    /\ res.index >= 3
    /\ ValidateBlockAt(fbytes, res.index - 1).result = "InvalidBlockHash"

\* C17 as stated: after one byte of block 0 of a validly chained store of
\* any number of blocks is changed, validate_all_blocks and
\* validate_block_at(i) for every i < block_count still return Ok.
GenesisTamperUndetected ==
    (/\ tamper.done /\ tamper.block = 0
     /\ \/ res.op = "validate_all_blocks"
        \/ res.op = "validate_block_at" /\ res.index < Len(fbytes) \div BlockSize)
        => res.result = "Ok"

\* C17 as amended: after one byte of block 0 of a validly chained store is
\* changed, validate_block_at(0) returns Ok, and so does validate_all_blocks
\* when block 0 is the only block; with two blocks or more
\* validate_all_blocks and validate_block_at(1) return InvalidBlockHash(1),
\* while validate_block_at(i) returns Ok for 1 < i < block_count.
GenesisTamperSeenAtBlockOne ==
    (tamper.done /\ tamper.block = 0) =>
        LET count == Len(fbytes) \div BlockSize
        IN /\ res.op = "validate_all_blocks" =>
                  IF count = 1 THEN res.result = "Ok"
                  ELSE res.result = "InvalidBlockHash" /\ res.val = 1
           /\ (res.op = "validate_block_at" /\ res.index < count) =>
                  IF res.index = 1
                  THEN res.result = "InvalidBlockHash" /\ res.val = 1
                  ELSE res.result = "Ok"

\* a data byte of the genesis block of a store of three blocks was changed
\* and validate_all_blocks reported block 1
GenesisTamperSeenWitness ==
    /\ tamper.done /\ tamper.block = 0 /\ tamper.off >= MDLEN
    /\ Len(fbytes) = 3 * BlockSize
    /\ res.op = "validate_all_blocks"
    /\ res.result = "InvalidBlockHash" /\ res.val = 1

\* C18: an append that writes its block grows the file by exactly the
\* BlockSize bytes prev_hash || data, placed at the end of the file, and
\* leaves every byte that was there unchanged, so block_count grows by one.
AppendOnlyStore ==
    [][(res'.op = "append" /\ res'.flushed) =>
           /\ fbytes' = fbytes \o res'.prev \o res'.data
           /\ Len(fbytes') = Len(fbytes) + BlockSize]_vars

\* ---- reading blocks back ----

\* Reader::read_block at stream position pos into a buffer of buflen bytes
ReadBlock(file, pos, buflen) ==
    IF buflen # BlockSize
    THEN [result |-> "InvalidSliceLength", pos |-> pos, buf |-> <<>>]
    ELSE LET r == ReadExact(file, pos, buflen)
         IN IF r.ok THEN [result |-> "Ok", pos |-> r.pos, buf |-> r.bytes]
            ELSE [result |-> "IOError", pos |-> r.pos, buf |-> <<>>]

\* Reader::read_block_at: self.seek(index)?, then self.read_block(buf)
ReadBlockAt(file, index, buflen) == ReadBlock(file, index * BlockSize, buflen)

\* Reader::read_data: the stream is moved MDLEN bytes on, then read
ReadData(file, pos, buflen) ==
    IF buflen # DATALEN
    THEN [result |-> "InvalidSliceLength", pos |-> pos, buf |-> <<>>]
    ELSE LET r == ReadExact(file, pos + MDLEN, buflen)
         IN IF r.ok THEN [result |-> "Ok", pos |-> r.pos, buf |-> r.bytes]
            ELSE [result |-> "IOError", pos |-> r.pos, buf |-> <<>>]

\* Reader::read_data_at: self.seek(index)?, then self.read_data(buf)
ReadDataAt(file, index, buflen) == ReadData(file, index * BlockSize, buflen)

\* the lengths of the buffers handed to the read calls
BufLens == {DATALEN, BlockSize}

\* reader.read_block(&mut buf) / reader.read_data(&mut buf), called while
\* the stream position is not past the end of the file
DoRead ==
    /\ reader.open
    /\ reader.pos <= Len(fbytes)
    /\ \E op \in {"read_block", "read_data"} :
       \E buflen \in BufLens :
         LET r == IF op = "read_block" THEN ReadBlock(fbytes, reader.pos, buflen)
                  ELSE ReadData(fbytes, reader.pos, buflen)
         IN /\ reader' = [reader EXCEPT !.pos = r.pos]
            /\ res' = [op |-> op, index |-> reader.pos \div BlockSize, buflen |-> buflen,
                       result |-> r.result, val |-> 0, buf |-> r.buf]
    /\ UNCHANGED <<fexists, fbytes, writers, tamper, iofails>>
    /\ IdleOthers

\* reader.read_block_at(index, &mut buf) / reader.read_data_at(index, &mut buf)
DoReadAt ==
    /\ reader.open
    /\ \E op \in {"read_block_at", "read_data_at"} :
       \E index \in 0..MaxBlocks :
       \E buflen \in BufLens :
         LET r == IF op = "read_block_at" THEN ReadBlockAt(fbytes, index, buflen)
                  ELSE ReadDataAt(fbytes, index, buflen)
         IN /\ reader' = [reader EXCEPT !.pos = r.pos]
            /\ res' = [op |-> op, index |-> index, buflen |-> buflen,
                       result |-> r.result, val |-> 0, buf |-> r.buf]
    /\ UNCHANGED <<fexists, fbytes, writers, tamper, iofails>>
    /\ IdleOthers

NextReader ==
    \/ DoReaderNew
    \/ DoSeek
    \/ DoRead
    \/ DoReadAt

SpecReader == ValidateInit /\ [][NextReader]_vars

\* C19: a call that returns InvalidSliceLength or InvalidIndex leaves the
\* file, the stream position of the Reader, the Writers with their
\* prev_hash, and the leaf vector as they were before the call.
ValidationFailuresHaveNoEffect ==
    [][res'.result \in {"InvalidSliceLength", "InvalidIndex"} =>
           UNCHANGED <<fbytes, reader, writers, mL>>]_vars

\* ------------------------------------------------------------------------
\* SHA-256 on words: the tables and the arithmetic of sha2.rs for u32
\* ------------------------------------------------------------------------

\* a u32 kept as its two 16-bit halves, high half first
Word(hi, lo) == <<hi, lo>>

\* u32::wrapping_add
WrappingAdd(a, b) ==
    LET lo == a[2] + b[2]
        hi == a[1] + b[1] + (lo \div 65536)
    IN Word(hi % 65536, lo % 65536)

\* w >> n, for 0 < n < 32
ShiftRight(w, n) ==
    IF n >= 16 THEN Word(0, w[1] \div (2 ^ (n - 16)))
    ELSE Word(w[1] \div (2 ^ n),
              (w[2] \div (2 ^ n)) + (w[1] % (2 ^ n)) * (2 ^ (16 - n)))

\* u32::rotate_right, for 0 < n < 32: the bits shifted out of the low half
\* come back at the top of the high half
RotateRight(w, n) ==
    IF n >= 16
    THEN LET m == n - 16
         IN Word((w[2] \div (2 ^ m)) + (w[1] % (2 ^ m)) * (2 ^ (16 - m)),
                 (w[1] \div (2 ^ m)) + (w[2] % (2 ^ m)) * (2 ^ (16 - m)))
    ELSE Word((w[1] \div (2 ^ n)) + (w[2] % (2 ^ n)) * (2 ^ (16 - n)),
              (w[2] \div (2 ^ n)) + (w[1] % (2 ^ n)) * (2 ^ (16 - n)))

RECURSIVE And(_, _)
\* bitwise and of two naturals
And(a, b) ==
    IF a = 0 \/ b = 0 THEN 0
    ELSE ((a % 2) * (b % 2)) + 2 * And(a \div 2, b \div 2)

\* a ^ b
BitXor(a, b) == Word(Xor(a[1], b[1]), Xor(a[2], b[2]))

\* a & b
BitAnd(a, b) == Word(And(a[1], b[1]), And(a[2], b[2]))

\* a ^ u32::MAX
BitNot(a) == Word(65535 - a[1], 65535 - a[2])

CONSTANTS_256 ==
    <<
       Word(\h428a, \h2f98), Word(\h7137, \h4491), Word(\hb5c0, \hfbcf), Word(\he9b5, \hdba5),
       Word(\h3956, \hc25b), Word(\h59f1, \h11f1), Word(\h923f, \h82a4), Word(\hab1c, \h5ed5),
       Word(\hd807, \haa98), Word(\h1283, \h5b01), Word(\h2431, \h85be), Word(\h550c, \h7dc3),
       Word(\h72be, \h5d74), Word(\h80de, \hb1fe), Word(\h9bdc, \h06a7), Word(\hc19b, \hf174),
       Word(\he49b, \h69c1), Word(\hefbe, \h4786), Word(\h0fc1, \h9dc6), Word(\h240c, \ha1cc),
       Word(\h2de9, \h2c6f), Word(\h4a74, \h84aa), Word(\h5cb0, \ha9dc), Word(\h76f9, \h88da),
       Word(\h983e, \h5152), Word(\ha831, \hc66d), Word(\hb003, \h27c8), Word(\hbf59, \h7fc7),
       Word(\hc6e0, \h0bf3), Word(\hd5a7, \h9147), Word(\h06ca, \h6351), Word(\h1429, \h2967),
       Word(\h27b7, \h0a85), Word(\h2e1b, \h2138), Word(\h4d2c, \h6dfc), Word(\h5338, \h0d13),
       Word(\h650a, \h7354), Word(\h766a, \h0abb), Word(\h81c2, \hc92e), Word(\h9272, \h2c85),
       Word(\ha2bf, \he8a1), Word(\ha81a, \h664b), Word(\hc24b, \h8b70), Word(\hc76c, \h51a3),
       Word(\hd192, \he819), Word(\hd699, \h0624), Word(\hf40e, \h3585), Word(\h106a, \ha070),
       Word(\h19a4, \hc116), Word(\h1e37, \h6c08), Word(\h2748, \h774c), Word(\h34b0, \hbcb5),
       Word(\h391c, \h0cb3), Word(\h4ed8, \haa4a), Word(\h5b9c, \hca4f), Word(\h682e, \h6ff3),
       Word(\h748f, \h82ee), Word(\h78a5, \h636f), Word(\h84c8, \h7814), Word(\h8cc7, \h0208),
       Word(\h90be, \hfffa), Word(\ha450, \h6ceb), Word(\hbef9, \ha3f7), Word(\hc671, \h78f2)
    >>

INITIAL_VALUES_256 ==
    <<
       Word(\h6a09, \he667), Word(\hbb67, \hae85), Word(\h3c6e, \hf372), Word(\ha54f, \hf53a),
       Word(\h510e, \h527f), Word(\h9b05, \h688c), Word(\h1f83, \hd9ab), Word(\h5be0, \hcd19)
    >>

\* msg_sch.w[i].to_be() for i in 0..16: the chunk's bytes read as
\* big-endian words
ChunkWords(bytes) ==
    [k \in 1..16 |-> Word(bytes[4 * k - 3] * 256 + bytes[4 * k - 2],
                          bytes[4 * k - 1] * 256 + bytes[4 * k])]

\* sigma0 of extend_msg_schedule! with the literals 7, 18, 3
SmallSigma0(w) == BitXor(BitXor(RotateRight(w, 7), RotateRight(w, 18)), ShiftRight(w, 3))

\* sigma1 of extend_msg_schedule! with the literals 17, 19, 10
SmallSigma1(w) == BitXor(BitXor(RotateRight(w, 17), RotateRight(w, 19)), ShiftRight(w, 10))

\* the body of the loop of extend_msg_schedule!: w[i + 16] for i = Len(w) - 16
ScheduleWord(w) ==
    LET i   == Len(w) - 16
        w0  == w[i + 1]
        w1  == SmallSigma0(w[i + 2])
        w9  == w[i + 10]
        w14 == SmallSigma1(w[i + 15])
    IN WrappingAdd(w0, WrappingAdd(w1, WrappingAdd(w9, w14)))

RECURSIVE ExtendMsgSchedule(_, _)
\* extend_msg_schedule!: `for i in 0..(64 - 16)`, the words up to n appended
\* in order, the first half of what is missing and then the rest
ExtendMsgSchedule(w, n) ==
    IF Len(w) >= n THEN w
    ELSE IF Len(w) + 1 = n THEN Append(w, ScheduleWord(w))
    ELSE ExtendMsgSchedule(ExtendMsgSchedule(w, (Len(w) + n) \div 2), n)

\* Sigma1 of compression_loop! with the literals 6, 11, 24 in place of
\* 6, 11, 25
BigSigma1Wrong(e) == BitXor(BitXor(RotateRight(e, 6), RotateRight(e, 11)), RotateRight(e, 24))

\* Sigma0 of compression_loop! with the literals 2, 13, 22
BigSigma0(a) == BitXor(BitXor(RotateRight(a, 2), RotateRight(a, 13)), RotateRight(a, 22))

\* Sigma1 of compression_loop! with the literals 6, 11, 25
BigSigma1(e) == BitXor(BitXor(RotateRight(e, 6), RotateRight(e, 11)), RotateRight(e, 25))

\* the body of the loop of compression_loop! for iteration s.i, over the
\* working variables s.v = <<a, b, c, d, e, f, g, h>> and the schedule w
CompressionRound(s, w) ==
    LET v        == s.v
        sigma0   == BigSigma0(v[1])
        sigma1   == BigSigma1(v[5])
        choice   == BitXor(BitAnd(v[5], v[6]), BitAnd(BitNot(v[5]), v[7]))
        majority == BitXor(BitXor(BitAnd(v[1], v[2]), BitAnd(v[1], v[3])),
                           BitAnd(v[2], v[3]))
        temp1    == WrappingAdd(v[8], WrappingAdd(sigma1,
                        WrappingAdd(choice, WrappingAdd(CONSTANTS_256[s.i], w[s.i]))))
        temp2    == WrappingAdd(sigma0, majority)
    IN [v |-> <<WrappingAdd(temp1, temp2), v[1], v[2], v[3],
                WrappingAdd(v[4], temp1), v[5], v[6], v[7]>>,
        i |-> s.i + 1]

RECURSIVE CompressionLoop(_, _, _)
\* compression_loop!: `for (i, constant) in CONSTANTS_256.iter().enumerate()`,
\* the iterations s.i..last in order, the first half and then the rest
CompressionLoop(s, w, last) ==
    IF s.i > last THEN s
    ELSE IF s.i = last THEN CompressionRound(s, w)
    ELSE CompressionLoop(CompressionLoop(s, w, (s.i + last) \div 2), w, last)

\* extend_msg_schedule! then compression_loop! for Sha256, and the working
\* variables added to st
Compress256(st, bytes) ==
    LET w == ExtendMsgSchedule(ChunkWords(bytes), 64)
        v == CompressionLoop([v |-> st, i |-> 1], w, 64).v
    IN <<WrappingAdd(st[1], v[1]), WrappingAdd(st[2], v[2]),
         WrappingAdd(st[3], v[3]), WrappingAdd(st[4], v[4]),
         WrappingAdd(st[5], v[5]), WrappingAdd(st[6], v[6]),
         WrappingAdd(st[7], v[7]), WrappingAdd(st[8], v[8])>>

RECURSIVE Sha256State(_)
\* the eight words a chaining state of Sha2Compress stands for in Sha256:
\* the initial values, or the state before compressed with the chunk
Sha256State(st) ==
    IF Len(st) = 1 THEN INITIAL_VALUES_256
    ELSE Compress256(Sha256State(st[1]), [i \in 1..64 |-> st[2][i][1]])

\* w.to_be_bytes() of a u32
WordBytes(w) ==
    <<Byte(w[1] \div 256), Byte(w[1] % 256), Byte(w[2] \div 256), Byte(w[2] % 256)>>

\* the bytes a digest of Sha2Serialize stands for in Sha256:
\* st[i].to_be_bytes() copied to the i-th group of four digest bytes
Sha256Serialize(st) ==
    WordBytes(st[1]) \o WordBytes(st[2]) \o WordBytes(st[3]) \o WordBytes(st[4])
        \o WordBytes(st[5]) \o WordBytes(st[6]) \o WordBytes(st[7]) \o WordBytes(st[8])

\* the 32 bytes of a Sha256 digest, from the chaining state its first byte
\* names
Sha256Digest(digest) == Sha256Serialize(Sha256State(digest[1][1]))

\* ------------------------------------------------------------------------
\* Sha256 driven on short messages, its digest computed byte by byte
\* ------------------------------------------------------------------------

\* longest message fed to the hasher
MaxMsgLen == 3

\* the bytes of the messages: b"a", b"b", b"c"
MsgBytes == {97, 98, 99}

\* Sha256::init()
Sha256DrivenInit ==
    /\ DigestIdle
    /\ MerkleIdle
    /\ UtilIdle
    /\ StoreIdle
    /\ alg = "Sha256"
    /\ hctx = HInit(alg)
    /\ hmsg = <<>>
    /\ horigin = "init"
    /\ hfin = 0
    /\ hdigest = <<>>
    /\ hchunks = <<>>
    /\ hprior = 0
    /\ hops = 0

\* ctx.update(data) with a non-empty slice of message bytes
DoSha256Update ==
    /\ hfin = 0
    /\ \E n \in 1..(MaxMsgLen - Len(hmsg)) :
         \E data \in [1..n -> {Byte(v) : v \in MsgBytes}] :
            /\ hctx' = HUpdate(alg, hctx, data)
            /\ hmsg' = hmsg \o data
            /\ hchunks' = Append(hchunks, n)
    /\ hops' = hops + 1
    /\ UNCHANGED <<alg, horigin, hfin, hdigest, hprior>>
    /\ UNCHANGED <<digestVars, merkleVars, storeVars, utilVars>>

\* ctx.finish(&mut digest): the 32 bytes written to the caller's array
DoSha256Finish ==
    /\ hfin = 0
    /\ LET r == HFinish(alg, hctx)
       IN /\ hctx' = r.ctx
          /\ hdigest' = Sha256Digest(r.digest)
    /\ hfin' = 1
    /\ hops' = hops + 1
    /\ UNCHANGED <<alg, hmsg, horigin, hchunks, hprior>>
    /\ UNCHANGED <<digestVars, merkleVars, storeVars, utilVars>>

NextSha256Driven == DoSha256Update \/ DoSha256Finish

SpecSha256 == Sha256DrivenInit /\ [][NextSha256Driven]_vars

\* the bytes a hexadecimal digest of FIPS 180-4 writes, as Byte values
HexBytes(vals) == [j \in 1..Len(vals) |-> Byte(vals[j])]

RootInsensitiveToPadding ==
    mroot.ran =>
        /\ mroot.leaves = ComputeRoot(mL).leaves
        /\ (Len(mL) > 1 /\ Len(mL) % 2 = 1) =>
               mroot.leaves = ComputeRoot(Append(mL, mL[Len(mL)])).leaves

\* compute_root has run on three leaves, the last differing from the first
RootInsensitiveToPaddingWitness ==
    /\ mroot.ran
    /\ Len(mL) = 3
    /\ mL[3] # mL[1]

\* ------------------------------------------------------------------------
\* The merkle module of lib.rs
\* ------------------------------------------------------------------------

RECURSIVE LibHashLevel(_, _, _)
\* `for (i, j) in (0..leaves.len()).step_by(2).enumerate()`: the 2 * MDLEN
\* bytes at leaves[j] go to one update of the caller's hasher
LibHashLevel(leaves, i, hasher) ==
    IF i >= Len(leaves) \div 2 THEN [leaves |-> leaves, hasher |-> hasher]
    ELSE
        LET j == i * 2
            r == Sha2Finish(HP, Sha2Update(HP, hasher, leaves[j + 1] \o leaves[j + 2]))
        IN LibHashLevel([leaves EXCEPT ![i + 1] = r.digest], i + 1, r.ctx)

RECURSIVE LibProofLoop(_, _, _, _, _)
\* merkle::compute_proof of lib.rs: the `while leaves.len() > 1` loop, which
\* ends with `index >>= 2`
LibProofLoop(leaves, index, proof, mutation, hasher) ==
    IF Len(leaves) <= 1
    THEN [ran |-> TRUE, ok |-> TRUE, leaves |-> leaves, proof |-> proof,
          mutation |-> mutation]
    ELSE
        LET m1     == mutation \/ HasEqualNeighbours(leaves)
            padded == PadOdd(leaves)
            node   == IF index % 2 = 1
                      THEN ChildNode("Left", SiblingOf(padded, index))
                      ELSE ChildNode("Right", SiblingOf(padded, index))
            r      == LibHashLevel(padded, 0, hasher)
        IN LibProofLoop(Truncate(r.leaves), index \div 4, Append(proof, node), m1, r.hasher)

\* merkle::compute_proof of lib.rs, the caller handing in a hasher
LibComputeProof(leaves, index, hasher) ==
    IF index >= Len(leaves)
    THEN [ran |-> TRUE, ok |-> FALSE, err |-> "InvalidIndex", leaves |-> leaves]
    ELSE LibProofLoop(leaves, index, <<>>, FALSE, hasher)

\* lib.rs: compute_proof::<MDLEN, H>(&mut leaves, index, &mut hasher) on a
\* copy of mL, the hasher fresh from H::init()
DoLibComputeProof ==
    /\ ~lproof.ran
    /\ lproof' = LibComputeProof(mL, mi, Sha2Init(HP))
    /\ UNCHANGED <<mL, mi, mroot, mproof, mproved>>
    /\ UNCHANGED <<hashVars, digestVars, storeVars, utilVars>>

NextBothProofs == DoComputeProof \/ DoLibComputeProof

\* both compute_proof functions of the source run on the same leaves and index
SpecBothProofs == MerkleInit /\ [][NextBothProofs]_vars

RECURSIVE MerkleLevels(_, _)
\* the padded levels merkle.rs hashes, from the leaves up
MerkleLevels(leaves, hasher) ==
    IF Len(leaves) <= 1 THEN <<>>
    ELSE LET r == HashLevel(PadOdd(leaves), 0, hasher)
         IN <<PadOdd(leaves)>> \o MerkleLevels(Truncate(r.leaves), r.hasher)

RECURSIVE LibMerkleLevels(_, _)
\* the padded levels lib.rs hashes, from the leaves up
LibMerkleLevels(leaves, hasher) ==
    IF Len(leaves) <= 1 THEN <<>>
    ELSE LET r == LibHashLevel(PadOdd(leaves), 0, hasher)
         IN <<PadOdd(leaves)>> \o LibMerkleLevels(Truncate(r.leaves), r.hasher)

\* entry k of the proof is the sibling of the ancestor of leaf `index` at
\* level k, tagged Left when the ancestor's position is odd
TracksAncestor(proof, levels, index) ==
    /\ Len(proof) = Len(levels)
    /\ \A k \in 1..Len(proof) :
          LET ancestor == index \div (2 ^ (k - 1))
          IN proof[k] = ChildNode(IF ancestor % 2 = 1 THEN "Left" ELSE "Right",
                                  SiblingOf(levels[k], ancestor))

\* the compute_proof of merkle.rs tracks the ancestor
MerkleRsTracksAncestor ==
    (mproof.ran /\ mproof.ok) =>
        TracksAncestor(mproof.proof, MerkleLevels(mL, Sha2Init(HP)), mi)

\* the compute_proof of lib.rs tracks the ancestor
LibRsTracksAncestor ==
    (lproof.ran /\ lproof.ok) =>
        TracksAncestor(lproof.proof, LibMerkleLevels(mL, Sha2Init(HP)), mi)

\* C23: in both compute_proof functions of the source (merkle.rs and the
\* merkle module of lib.rs) the tracked index is halved after each level, so
\* every proof entry is the sibling of the leaf's ancestor at that level,
\* tagged Left when the ancestor's position is odd and Right when it is even.
ProofTracksAncestor == MerkleRsTracksAncestor /\ LibRsTracksAncestor

RECURSIVE LoopLengths(_, _)
\* leaves.len() each time the `while leaves.len() > 1` test of compute_root
\* and compute_proof is evaluated
LoopLengths(leaves, hasher) ==
    IF Len(leaves) <= 1 THEN <<Len(leaves)>>
    ELSE LET r == HashLevel(PadOdd(leaves), 0, hasher)
         IN <<Len(leaves)>> \o LoopLengths(Truncate(r.leaves), r.hasher)

RECURSIVE CeilLog2(_)
\* the least k with 2^k >= n, for n >= 1
CeilLog2(n) == IF n <= 1 THEN 0 ELSE 1 + CeilLog2((n + 1) \div 2)

\* C26: on a non-empty leaf list compute_root and compute_proof end: each
\* level replaces a length n > 1 by ceil(n / 2), exactly one element is left
\* in leaves, a single leaf is its own root, and the proof has exactly
\* ceil(log2 |L|) entries.
MerkleLoopsEndAtOne ==
    /\ (mroot.ran /\ Len(mL) >= 1) =>
          LET lens == LoopLengths(mL, Sha2Init(HP))
          IN /\ \A k \in 1..(Len(lens) - 1) :
                    lens[k] > 1 /\ lens[k + 1] = (lens[k] + 1) \div 2
             /\ lens[Len(lens)] = 1
             /\ Len(lens) = CeilLog2(Len(mL)) + 1
             /\ Len(mroot.leaves) = 1
             /\ Len(mL) = 1 => mroot.leaves = mL
    /\ (mproof.ran /\ mproof.ok) =>
          /\ Len(mproof.leaves) = 1
          /\ Len(mproof.proof) = CeilLog2(Len(mL))
          /\ Len(mL) = 1 => (mproof.proof = <<>> /\ mproof.leaves = mL)

\* both functions have run on five leaves: lengths 5, 3, 2, 1 and a proof
\* of three entries
MerkleLoopsEndAtOneWitness ==
    /\ mroot.ran /\ mproof.ran /\ mproof.ok
    /\ Len(mL) = 5
    /\ Len(mproof.proof) = 3
    /\ LoopLengths(mL, Sha2Init(HP)) = <<5, 3, 2, 1>>

\* ------------------------------------------------------------------------
\* Further properties of the hashers
\* ------------------------------------------------------------------------

RECURSIVE ChunksSince(_, _)
\* the chunks compressed, in order, to take chaining state st0 to st
ChunksSince(st, st0) ==
    IF st = st0 \/ Len(st) = 1 THEN <<>>
    ELSE Append(ChunksSince(st[1], st0), st[2])

RECURSIVE BeValueFrom(_, _, _)
\* the number bytes[i..] writes in big-endian order after the digits acc
BeValueFrom(bytes, i, acc) ==
    IF i > Len(bytes) THEN acc ELSE BeValueFrom(bytes, i + 1, 256 * acc + bytes[i][1])

\* the number a sequence of plain bytes writes in big-endian order
BeValue(bytes) == BeValueFrom(bytes, 1, 0)

RECURSIVE Flatten(_)
\* the bytes of a sequence of chunks, one after the other
Flatten(chunks) ==
    IF chunks = <<>> THEN <<>>
    ELSE Flatten(SubSeq(chunks, 1, Len(chunks) - 1)) \o chunks[Len(chunks)]

\* C27: the first finish of a SHA-2 context compresses the buffered bytes
\* followed by 0x80, zeros and the bit length 8 * (bytes fed by update) as a
\* big-endian integer of 8 bytes (256 family) or 16 bytes (512 family); the
\* padded message is a whole number of chunks, the buffer is empty after
\* finish, and the compression function runs once when at most
\* chunk - 1 - (length-field size) bytes were buffered (55 of 64, 111 of
\* 128) and twice otherwise.
FinishPadsToWholeChunks ==
    [][(alg \in Sha2Algs /\ hfin = 0 /\ hfin' = 1) =>
          LET p        == Sha2Params(alg)
              buffered == SubSeq(hctx.b, 1, hctx.msg_num)
              chunks   == ChunksSince(hctx'.st, hctx.st)
              fed      == Flatten(chunks)
              pad      == SubSeq(fed, hctx.msg_num + 1, Len(fed))
              nz       == Len(pad) - 1 - p.lenBytes
          IN /\ p.lenBytes = (IF alg \in {"Sha224", "Sha256"} THEN 8 ELSE 16)
             /\ Len(hmsg) % p.chunk = hctx.msg_num
             /\ SubSeq(fed, 1, hctx.msg_num) = buffered
             /\ nz >= 0
             /\ pad[1] = Byte(128)
             /\ \A i \in 2..(nz + 1) : pad[i] = Byte(0)
             /\ BeValue(SubSeq(pad, nz + 2, Len(pad))) = 8 * Len(hmsg)
             /\ hctx'.msg_num = 0
             /\ Len(chunks) =
                    (IF hctx.msg_num <= p.chunk - 1 - p.lenBytes THEN 1 ELSE 2)
             /\ (p.chunk - 1 - p.lenBytes) = (IF p.chunk = 64 THEN 55 ELSE 111)]_vars

\* a SHA-2 context that had one byte less than a chunk buffered has finished
\* with two compressions
FinishPadsToWholeChunksWitness ==
    /\ alg \in Sha2Algs
    /\ hfin = 1
    /\ horigin = "init"
    /\ Len(hmsg) = Sha2Params(alg).chunk - 1
    /\ hctx.msg_num = 0
    /\ Len(ChunksSince(hctx.st, <<Sha2Params(alg).iv>>)) = 2

\* ------------------------------------------------------------------------
\* SHAKE as an extendable-output function: finish_xof with a slice of any
\* length
\* ------------------------------------------------------------------------

ShakeAlgs == {"Shake128", "Shake256"}

\* lengths of the slices handed to finish_xof: one byte, a digest, the rate
\* less one, the rate, the rate and one, and twice the rate and one
XofLens(a) ==
    {1, 32, HBlockLen(a) - 1, HBlockLen(a), HBlockLen(a) + 1, 2 * HBlockLen(a) + 1}

ShakeInit == HashInit /\ alg \in ShakeAlgs

\* ctx.finish_xof(&mut digest[..n])
DoFinishXof ==
    /\ hops < MaxHashOps
    /\ hfin = 0
    /\ \E n \in XofLens(alg) :
         LET r == ShakeOut(ShakeXof(hctx), n)
         IN /\ hctx' = r.ctx
            /\ hdigest' = r.digest
    /\ hfin' = 1
    /\ hops' = hops + 1
    /\ UNCHANGED <<alg, hmsg, horigin, hchunks, hprior>>
    /\ UNCHANGED <<digestVars, merkleVars, storeVars, utilVars>>

NextShake == DoUpdate \/ DoFinishXof

SpecShake == ShakeInit /\ [][NextShake]_vars

RECURSIVE KeccakfTimes(_, _)
\* the state after n more permutations
KeccakfTimes(st, n) == IF n = 0 THEN st ELSE Keccakf(KeccakfTimes(st, n - 1))

RECURSIVE PermutationsSince(_, _)
\* the number of permutations that took state st0 to st, nothing being
\* absorbed in between
PermutationsSince(st, st0) ==
    IF st = st0 \/ st.base = <<>> THEN 0
    ELSE 1 + PermutationsSince([base |-> st.base[1], x |-> st.base[2]], st0)

\* C28: SHAKE output is a prefix-consistent stream.  With x the context
\* after the message is padded and permuted once, output byte k (from 0) is
\* state byte k mod R after floor(k / R) further permutations; the output of
\* any shorter length is a prefix of it; and Keccak-f has run only for the
\* positions that reached the rate: floor((n - 1) / R) times for n bytes.
ShakeIsPrefixStream ==
    (alg \in ShakeAlgs /\ hfin = 1 /\ horigin = "init" /\ hops = Len(hchunks) + 1) =>
        LET x == ShakeXof(HUpdate(alg, HInit(alg), hmsg))
            R == HBlockLen(alg)
            n == Len(hdigest)
        IN /\ \A k \in 0..(n - 1) :
                 hdigest[k + 1] = Sha3ByteAt(KeccakfTimes(x.st, k \div R), k % R)
           /\ \A m \in XofLens(alg) :
                 m <= n => ShakeOut(x, m).digest = SubSeq(hdigest, 1, m)
           /\ PermutationsSince(hctx.st, x.st) = (n - 1) \div R

\* a message was absorbed and 2R + 1 bytes were squeezed: two permutations
\* ran while squeezing
ShakeIsPrefixStreamWitness ==
    /\ alg \in ShakeAlgs
    /\ hfin = 1
    /\ Len(hmsg) > 0
    /\ hops = Len(hchunks) + 1
    /\ Len(hdigest) = 2 * HBlockLen(alg) + 1
    /\ hdigest[Len(hdigest)] # hdigest[1]

\* ------------------------------------------------------------------------
\* Block stream: BlockStream<B> as main.rs and tests/io.rs use it.  Its
\* implementation is not among the source files; the operations are
\* modelled from their description: open, write (append at end-of-file),
\* rewind (seek to block 0) and read.
\* ------------------------------------------------------------------------

\* B, the block size of the stream
StreamB == 2

\* the stream is not grown beyond this many blocks
MaxStreamBlocks == 3

\* the blocks written: B bytes of one value
StreamBlocks == {Rep(StreamB, Byte(v)) : v \in {1, 2}}

\* open(path) on a path where no file exists: the file is created empty
StreamNew ==
    [open |-> TRUE, file |-> <<>>, pos |-> 0, written |-> <<>>, got |-> <<>>,
     rewound |-> FALSE, last |-> [op |-> "new", result |-> "Ok", val |-> 0]]

\* write(buf): requires |buf| mod B = 0; appends at end-of-file, flushes,
\* and returns the number of blocks written
StreamWrite(s, buf) ==
    IF Len(buf) % StreamB # 0
    THEN [s EXCEPT !.last = [op |-> "write", result |-> "InvalidInput", val |-> 0]]
    ELSE [s EXCEPT !.file = s.file \o buf,
                   !.pos = Len(s.file) + Len(buf),
                   !.written = Append(s.written, buf),
                   !.rewound = FALSE,
                   !.last = [op |-> "write", result |-> "Ok",
                             val |-> Len(buf) \div StreamB]]

\* rewind(): seek(Start(0))
StreamRewind(s) ==
    [s EXCEPT !.pos = 0, !.got = <<>>, !.rewound = TRUE,
              !.last = [op |-> "rewind", result |-> "Ok", val |-> 0]]

\* StreamRead leaving the position where it was
StreamReadInPlace(s, n) ==
    IF n % StreamB # 0 \/ s.pos % StreamB # 0
    THEN [s EXCEPT !.last = [op |-> "read", result |-> "InvalidInput", val |-> 0]]
    ELSE IF s.pos + n > Len(s.file)
    THEN [s EXCEPT !.last = [op |-> "read", result |-> "UnexpectedEof", val |-> 0]]
    ELSE [s EXCEPT !.got = Append(s.got, SubSeq(s.file, s.pos + 1, s.pos + n)),
                   !.last = [op |-> "read", result |-> "Ok", val |-> n \div StreamB]]

\* read(buf) with |buf| = n: requires n mod B = 0 and a block-aligned
\* position; reads n bytes and returns the number of blocks read;
\* end-of-file is the unexpected-EOF error kind and no data
StreamRead(s, n) ==
    IF n % StreamB # 0 \/ s.pos % StreamB # 0
    THEN [s EXCEPT !.last = [op |-> "read", result |-> "InvalidInput", val |-> 0]]
    ELSE IF s.pos + n > Len(s.file)
    THEN [s EXCEPT !.last = [op |-> "read", result |-> "UnexpectedEof", val |-> 0]]
    ELSE [s EXCEPT !.pos = s.pos + n,
                   !.got = Append(s.got, SubSeq(s.file, s.pos + 1, s.pos + n)),
                   !.last = [op |-> "read", result |-> "Ok", val |-> n \div StreamB]]

StreamInit ==
    /\ HashIdle
    /\ DigestIdle
    /\ MerkleIdle
    /\ StoreIdle
    /\ strm = StreamNew
    /\ cache = [made |-> FALSE]
    /\ heap = [made |-> FALSE]
    /\ mheap = [made |-> FALSE]

StreamFrame ==
    UNCHANGED <<hashVars, digestVars, merkleVars, storeVars, cache, heap, mheap>>

\* stream.write_all(block)
DoStreamWrite ==
    /\ Len(strm.written) < MaxStreamBlocks
    /\ \E buf \in StreamBlocks : strm' = StreamWrite(strm, buf)
    /\ StreamFrame

\* stream.rewind()
DoStreamRewind ==
    /\ strm' = StreamRewind(strm)
    /\ StreamFrame

\* stream.read(&mut buf) with a buffer of one block
DoStreamRead ==
    /\ strm' = StreamRead(strm, StreamB)
    /\ StreamFrame

NextStream == DoStreamWrite \/ DoStreamRewind \/ DoStreamRead

SpecStream == StreamInit /\ [][NextStream]_vars

\* C22: after rewind, the blocks written by successive writes are read
\* back in write order with identical content, one block per read, and the
\* read attempted after the last block reports the unexpected-EOF error
\* kind and returns no data.
StreamReadsBackInOrder ==
    strm.rewound =>
        /\ Len(strm.got) <= Len(strm.written)
        /\ strm.got = SubSeq(strm.written, 1, Len(strm.got))
        /\ strm.pos = Len(strm.got) * StreamB
        /\ (strm.last.op = "read" /\ strm.last.result = "Ok") => strm.last.val = 1
        /\ (strm.last.op = "read" /\ strm.last.result # "Ok") =>
               /\ strm.last.result = "UnexpectedEof"
               /\ strm.got = strm.written

\* three blocks, not all alike, were written, the stream rewound, all three
\* read back, and a fourth read returned the unexpected-EOF error
StreamReadsBackInOrderWitness ==
    /\ strm.rewound
    /\ Len(strm.written) = 3
    /\ strm.written[1] # strm.written[3]
    /\ strm.got = strm.written
    /\ strm.last = [op |-> "read", result |-> "UnexpectedEof", val |-> 0]

\* ------------------------------------------------------------------------
\* cache.rs: Cache<BLOCK_SIZE>, a heap of block numbers and a map from
\* block number to a timestamped block.  Heap positions are 0-based as in
\* the source; position i is heap[i + 1] here.  Instant::now() is a clock
\* that advances at every reading.
\* ------------------------------------------------------------------------

\* the largest capacity a cache is made with
MaxCapacity == 2

\* block numbers are 0..MaxCacheKey
MaxCacheKey == 3

\* the clock is read at most this many times
MaxCacheOps == 5

CacheKeys == 0..MaxCacheKey

\* Cache::new(capacity)
CacheNew(capacity) ==
    [made |-> TRUE, heap |-> <<>>, map |-> <<>>, capacity |-> capacity,
     clock |-> 0,
     last |-> [op |-> "new", key |-> 0, result |-> "Some", full |-> FALSE,
               before |-> {}, oldest |-> 0]]

\* count()
CacheCount(c) == Cardinality(DOMAIN c.map)

\* Vec::swap_remove(i): the last element takes the place of element i
SwapRemove(h, i) ==
    LET n == Len(h)
    IN IF i = n - 1 THEN SubSeq(h, 1, n - 1)
       ELSE SubSeq([h EXCEPT ![i + 1] = h[n]], 1, n - 1)

\* slice::swap(a, b)
Swap(h, a, b) == [h EXCEPT ![a + 1] = h[b + 1], ![b + 1] = h[a + 1]]

\* compare(a, b): the map is looked up with a and b themselves as keys
CacheCompare(c, a, b) ==
    IF a \notin DOMAIN c.map \/ b \notin DOMAIN c.map THEN "None"
    ELSE IF c.map[a] < c.map[b] THEN "Less"
    ELSE IF c.map[a] > c.map[b] THEN "Greater"
    ELSE "Equal"

\* the loop of extract from position p; ok is FALSE when a compare
\* returned None and the function returned early
RECURSIVE CacheSortDown(_, _)
CacheSortDown(c, p) ==
    LET length == Len(c.heap)
        left   == 2 * p + 1
        right  == left + 1
        cl     == IF left < length THEN CacheCompare(c, left, p) ELSE "Skip"
        x      == IF cl = "Less" THEN left ELSE p
        cr     == IF right < length THEN CacheCompare(c, right, x) ELSE "Skip"
        y      == IF cr = "Less" THEN right ELSE x
    IN IF cl = "None" THEN [c |-> c, ok |-> FALSE]
       ELSE IF cr = "None" THEN [c |-> c, ok |-> FALSE]
       ELSE IF y = p THEN [c |-> c, ok |-> TRUE]
       ELSE CacheSortDown([c EXCEPT !.heap = Swap(c.heap, p, y)], y)

\* extract()
CacheExtract(c) ==
    IF Len(c.heap) = 0 THEN [c |-> c, ok |-> FALSE]
    ELSE
        LET removed == c.heap[1]
            c1 == [c EXCEPT !.heap = SwapRemove(c.heap, 0)]
        IN IF removed \notin DOMAIN c.map THEN [c |-> c1, ok |-> FALSE]
           ELSE CacheSortDown(
                    [c1 EXCEPT !.map = [k \in DOMAIN c.map \ {removed} |-> c.map[k]]],
                    0)

\* the loop of insert from position i
RECURSIVE CacheSortUp(_, _)
CacheSortUp(c, i) ==
    IF i = 0 THEN [c |-> c, ok |-> TRUE]
    ELSE
        LET p == (i - 1) \div 2
            r == CacheCompare(c, i, p)
        IN IF r = "None" THEN [c |-> c, ok |-> FALSE]
           ELSE IF r = "Less"
                THEN CacheSortUp([c EXCEPT !.heap = Swap(c.heap, i, p)], p)
                ELSE [c |-> c, ok |-> TRUE]

\* the key whose timestamp is the oldest
CacheOldest(c) ==
    CHOOSE k \in DOMAIN c.map : \A j \in DOMAIN c.map : c.map[k] <= c.map[j]

\* what is recorded about a call of insert
CacheInsertNote(c, key, result) ==
    [op |-> "insert", key |-> key, result |-> result,
     full |-> key \notin DOMAIN c.map /\ CacheCount(c) >= c.capacity /\ CacheCount(c) > 0,
     before |-> DOMAIN c.map,
     oldest |-> IF CacheCount(c) > 0 THEN CacheOldest(c) ELSE 0]

\* the tail of insert: push, map.insert, and the loop
CachePush(c, key) ==
    LET i  == Len(c.heap)
        c1 == [c EXCEPT !.heap = Append(c.heap, key),
                        !.map = [k \in DOMAIN c.map \cup {key} |->
                                   IF k = key THEN c.clock + 1 ELSE c.map[k]],
                        !.clock = c.clock + 1]
    IN CacheSortUp(c1, i)

\* insert(block_num, block)
CacheInsert(c, key) ==
    IF key \in DOMAIN c.map
    THEN [c EXCEPT !.map[key] = c.clock + 1, !.clock = c.clock + 1,
                   !.last = CacheInsertNote(c, key, "None")]
    ELSE
        LET e == IF CacheCount(c) >= c.capacity THEN CacheExtract(c)
                 ELSE [c |-> c, ok |-> TRUE]
        IN IF ~e.ok
           THEN [e.c EXCEPT !.last = CacheInsertNote(c, key, "None")]
           ELSE LET r == CachePush(e.c, key)
                IN [r.c EXCEPT !.last =
                       CacheInsertNote(c, key, IF r.ok THEN "Some" ELSE "None")]

\* lookup(block_num)
CacheLookup(c, key) ==
    IF key \in DOMAIN c.map
    THEN [c EXCEPT !.map[key] = c.clock + 1, !.clock = c.clock + 1,
                   !.last = [op |-> "lookup", key |-> key, result |-> "Some",
                             full |-> FALSE, before |-> DOMAIN c.map, oldest |-> 0]]
    ELSE [c EXCEPT !.last = [op |-> "lookup", key |-> key, result |-> "None",
                             full |-> FALSE, before |-> DOMAIN c.map, oldest |-> 0]]

CacheInit ==
    /\ HashIdle
    /\ DigestIdle
    /\ MerkleIdle
    /\ StoreIdle
    /\ strm = [open |-> FALSE]
    /\ \E capacity \in 1..MaxCapacity : cache = CacheNew(capacity)
    /\ heap = [made |-> FALSE]
    /\ mheap = [made |-> FALSE]

CacheFrame ==
    UNCHANGED <<hashVars, digestVars, merkleVars, storeVars, strm, heap, mheap>>

DoCacheInsert ==
    /\ cache.clock < MaxCacheOps
    /\ \E key \in CacheKeys : cache' = CacheInsert(cache, key)
    /\ CacheFrame

DoCacheLookup ==
    /\ cache.clock < MaxCacheOps
    /\ \E key \in CacheKeys : cache' = CacheLookup(cache, key)
    /\ CacheFrame

NextCache == DoCacheInsert \/ DoCacheLookup

SpecCache == CacheInit /\ [][NextCache]_vars

\* count() never exceeds the capacity
CacheCountWithinCapacity == CacheCount(cache) <= cache.capacity

\* an insert of a new key into a full cache removed exactly the entry
\* whose timestamp was the oldest
CacheEvictedOldest ==
    (cache.last.op = "insert" /\ cache.last.full) =>
        cache.last.before \ DOMAIN cache.map = {cache.last.oldest}

\* C24: the cache is an LRU of fixed capacity: inserting a new key into a
\* full cache evicts exactly the entry with the oldest access timestamp,
\* lookup and re-insert refreshing the timestamp, and count() never
\* exceeds the capacity.
CacheIsLru == CacheCountWithinCapacity /\ CacheEvictedOldest

\* ------------------------------------------------------------------------
\* heap.rs: the binary heap functions over a Vec<T> and the MinHeap and
\* MaxHeap wrappers that call them with their HeapType.  Positions are
\* 0-based as in the source; position i is h[i + 1] here.
\* ------------------------------------------------------------------------

\* a heap holds at most this many elements
MaxHeapLen == 6

\* the elements are 1..MaxHeapVal
MaxHeapVal == 2

HeapVals == 1..MaxHeapVal

HeapType == {"MinHeap", "MaxHeap"}

\* a.cmp(b) == order, order being Greater for a MaxHeap and Less otherwise
CmpIsOrder(heap_type, a, b) ==
    IF heap_type = "MaxHeap" THEN a > b ELSE a < b

\* sort_down(heap, heap_type, p)
RECURSIVE sort_down(_, _, _)
sort_down(h, heap_type, p) ==
    LET length == Len(h)
        left   == (p * 2) + 1
        right  == left + 1
        x0     == IF left < length /\ CmpIsOrder(heap_type, h[left + 1], h[p + 1])
                  THEN left ELSE p
        x      == IF right < length /\ CmpIsOrder(heap_type, h[right + 1], h[x0 + 1])
                  THEN right ELSE x0
    IN IF x = p THEN h ELSE sort_down(Swap(h, p, x), heap_type, x)

\* sort_up(heap, heap_type, c)
RECURSIVE sort_up(_, _, _)
sort_up(h, heap_type, c) ==
    IF c = 0 THEN h
    ELSE LET p == (c - 1) \div 2
         IN IF CmpIsOrder(heap_type, h[c + 1], h[p + 1])
            THEN sort_up(Swap(h, c, p), heap_type, p)
            ELSE h

\* insert(heap, heap_type, element)
HeapInsert(h, heap_type, element) ==
    sort_up(Append(h, element), heap_type, Len(h))

\* remove(heap, heap_type, index)
HeapRemove(h, heap_type, index) ==
    IF Len(h) = 0 THEN [h |-> h, result |-> "EmptyHeap", val |-> 0]
    ELSE IF index >= Len(h) THEN [h |-> h, result |-> "InvalidIndex", val |-> 0]
    ELSE [h |-> sort_down(SwapRemove(h, index), heap_type, index),
          result |-> "Ok", val |-> h[index + 1]]

\* extract(heap, heap_type)
HeapExtract(h, heap_type) == HeapRemove(h, heap_type, 0)

\* find(heap, element): the first position holding element, or -1 for None
HeapFind(h, element) ==
    IF \E i \in 0..(Len(h) - 1) : h[i + 1] = element
    THEN CHOOSE i \in 0..(Len(h) - 1) :
             /\ h[i + 1] = element
             /\ \A j \in 0..(i - 1) : h[j + 1] # element
    ELSE -1

\* update(heap, heap_type, element, replace_with)
HeapUpdate(h, heap_type, element, replace_with) ==
    LET i == HeapFind(h, element)
    IN IF i = -1 THEN [h |-> h, result |-> "None", val |-> 0]
       ELSE LET h1 == [h EXCEPT ![i + 1] = replace_with]
            IN [h |-> IF CmpIsOrder(heap_type, replace_with, element)
                      THEN sort_up(h1, heap_type, i)
                      ELSE sort_down(h1, heap_type, i),
                result |-> "Some", val |-> 0]

\* MinHeap::new() or MaxHeap::new()
HeapNew(heap_type) ==
    [made |-> TRUE, type |-> heap_type, h |-> <<>>,
     last |-> [op |-> "new", result |-> "Ok", val |-> 0, before |-> <<>>]]

HeapInit ==
    /\ HashIdle
    /\ DigestIdle
    /\ MerkleIdle
    /\ StoreIdle
    /\ strm = [open |-> FALSE]
    /\ cache = [made |-> FALSE]
    /\ \E heap_type \in HeapType : heap = HeapNew(heap_type)
    /\ mheap = [made |-> FALSE]

HeapFrame ==
    UNCHANGED <<hashVars, digestVars, merkleVars, storeVars, strm, cache, mheap>>

\* what an operation leaves in the heap variable
HeapAfter(op, r) ==
    [heap EXCEPT !.h = r.h,
                 !.last = [op |-> op, result |-> r.result, val |-> r.val,
                           before |-> heap.h]]

\* Heap::insert(element)
DoHeapInsert ==
    /\ Len(heap.h) < MaxHeapLen
    /\ \E element \in HeapVals :
           heap' = HeapAfter("insert",
                             [h |-> HeapInsert(heap.h, heap.type, element),
                              result |-> "Ok", val |-> 0])
    /\ HeapFrame

\* Heap::extract()
DoHeapExtract ==
    /\ heap' = HeapAfter("extract", HeapExtract(heap.h, heap.type))
    /\ HeapFrame

\* Heap::remove(index)
DoHeapRemove ==
    /\ \E index \in 0..MaxHeapLen :
           heap' = HeapAfter("remove", HeapRemove(heap.h, heap.type, index))
    /\ HeapFrame

\* Heap::update(element, replace_with)
DoHeapUpdate ==
    /\ \E element \in HeapVals, replace_with \in HeapVals :
           heap' = HeapAfter("update",
                             HeapUpdate(heap.h, heap.type, element, replace_with))
    /\ HeapFrame

NextHeap == DoHeapInsert \/ DoHeapExtract \/ DoHeapRemove \/ DoHeapUpdate

SpecHeap == HeapInit /\ [][NextHeap]_vars

\* no element comes before its parent in the order of the heap type
HeapOrdered(h, heap_type) ==
    \A c \in 1..(Len(h) - 1) :
        ~CmpIsOrder(heap_type, h[c + 1], h[((c - 1) \div 2) + 1])

\* a successful extract returned a minimum (MinHeap) or maximum (MaxHeap)
\* of the elements stored before it
ExtractReturnedExtreme ==
    (heap.last.op = "extract" /\ heap.last.result = "Ok") =>
        \A i \in 1..Len(heap.last.before) :
            ~CmpIsOrder(heap.type, heap.last.before[i], heap.last.val)

\* a failed remove or extract said EmptyHeap or InvalidIndex and left the
\* heap as it was
FailedRemoveLeavesHeap ==
    (heap.last.op \in {"extract", "remove"} /\ heap.last.result # "Ok") =>
        /\ heap.last.result =
               IF Len(heap.last.before) = 0 THEN "EmptyHeap" ELSE "InvalidIndex"
        /\ heap.h = heap.last.before

\* C29: after any sequence of insert, extract, remove(index) and update on
\* a MinHeap (resp. MaxHeap) no element is smaller (resp. larger) than its
\* parent, so extract returns a minimum (resp. maximum) of the stored
\* elements, and remove and extract fail with EmptyHeap or InvalidIndex
\* without changing the heap.
HeapOrderKept ==
    /\ HeapOrdered(heap.h, heap.type)
    /\ ExtractReturnedExtreme
    /\ FailedRemoveLeavesHeap

\* ------------------------------------------------------------------------
\* min_heap.rs: MinHeap<T> over a Vec<T>.  The elements are modelled by
\* what orders them (for a TimestampedItem, its timestamp).  Positions are
\* 0-based as in the source; position i is h[i + 1] here.
\* ------------------------------------------------------------------------

\* a heap holds at most this many elements
MaxMinHeapLen == 4

\* the elements are 1..MaxMinHeapVal
MaxMinHeapVal == 3

MinHeapVals == 1..MaxMinHeapVal

\* left(index)
left(index) == (index * 2) + 1

\* right(index)
right(index) == (index * 2) + 2

\* heapify(i)
RECURSIVE heapify(_, _)
heapify(h, i) ==
    LET l  == left(i)
        r  == right(i)
        s0 == IF l < Len(h) /\ h[l + 1] < h[i + 1] THEN l ELSE i
        smallest == IF r < Len(h) /\ h[r + 1] < h[s0 + 1] THEN r ELSE s0
    IN IF smallest # i THEN heapify(Swap(h, i, smallest), smallest) ELSE h

\* Vec::sort
RECURSIVE SortVec(_)
SortVec(h) ==
    IF Len(h) = 0 THEN <<>>
    ELSE LET m == CHOOSE i \in 1..Len(h) : \A j \in 1..Len(h) : h[i] <= h[j]
         IN <<h[m]>> \o SortVec(SubSeq(h, 1, m - 1) \o SubSeq(h, m + 1, Len(h)))

\* MinHeap::new(iter)
MinHeapNew(iter) ==
    [made |-> TRUE, h |-> SortVec(iter),
     last |-> [op |-> "new", result |-> "Some", val |-> 0, before |-> <<>>]]

\* extract()
MinHeapExtract(m) ==
    IF Len(m.h) = 0
    THEN [m EXCEPT !.last = [op |-> "extract", result |-> "None", val |-> 0,
                             before |-> m.h]]
    ELSE [m EXCEPT !.h = heapify(SwapRemove(m.h, 0), 0),
                   !.last = [op |-> "extract", result |-> "Some", val |-> m.h[1],
                             before |-> m.h]]

\* insert(item)
MinHeapInsert(m, item) ==
    LET h1 == Append(m.h, item)
    IN [m EXCEPT !.h = heapify(h1, Len(h1) - 1),
                 !.last = [op |-> "insert", result |-> "Some", val |-> item,
                           before |-> m.h]]

MinHeapInit ==
    /\ HashIdle
    /\ DigestIdle
    /\ MerkleIdle
    /\ StoreIdle
    /\ strm = [open |-> FALSE]
    /\ cache = [made |-> FALSE]
    /\ heap = [made |-> FALSE]
    /\ \E n \in 0..(MaxMinHeapLen - 1) :
           \E iter \in [1..n -> MinHeapVals] : mheap = MinHeapNew(iter)

MinHeapFrame ==
    UNCHANGED <<hashVars, digestVars, merkleVars, storeVars, strm, cache, heap>>

DoMinHeapInsert ==
    /\ Len(mheap.h) < MaxMinHeapLen
    /\ \E item \in MinHeapVals : mheap' = MinHeapInsert(mheap, item)
    /\ MinHeapFrame

DoMinHeapExtract ==
    /\ mheap' = MinHeapExtract(mheap)
    /\ MinHeapFrame

NextMinHeap == DoMinHeapInsert \/ DoMinHeapExtract

SpecMinHeap == MinHeapInit /\ [][NextMinHeap]_vars

\* extract returned None only on an empty heap
MinHeapNoneOnlyWhenEmpty ==
    (mheap.last.op = "extract" /\ mheap.last.result = "None") =>
        Len(mheap.last.before) = 0

\* C30: after any sequence of insert and extract on a MinHeap of
\* min_heap.rs, extract returns the smallest element stored, and returns
\* None only when the heap is empty.
MinHeapExtractsSmallest ==
    /\ MinHeapNoneOnlyWhenEmpty
    /\ (mheap.last.op = "extract" /\ mheap.last.result = "Some") =>
           \A i \in 1..Len(mheap.last.before) :
               mheap.last.val <= mheap.last.before[i]
    /\ (mheap.last.op = "extract" /\ Len(mheap.last.before) > 0) =>
           mheap.last.result = "Some"

====
